---- MODULE Spec2Model ----
(***************************************************************************)
(* Rule engine of the Go program: Board (grid, groups, liberties,          *)
(* captures, position history) and GameState (turns, passes, move log,     *)
(* capture tallies), driven by a move source (board clicks and the pass    *)
(* key).                                                                   *)
(***************************************************************************)
EXTENDS Integers, Sequences, FiniteSets, TLC

\* ------------------------------------------------------------------ bounds
\* Board edge length (the program is built with 19).
Size == 3
\* Number of accepted moves the move source makes after its scripted opening.
MaxFree == 1

\* --------------------------------------------------------------- constants
EMPTY == 0
BLACK == 1
WHITE == 2
\* Number of grids kept in previous_board_states.
HistoryLimit == 8
\* Python's None (for ko_position and last_board_state).
None == << >>

VARIABLES
    board,                  \* Board.board: board[y][x]
    last_board_state,       \* Board.last_board_state
    previous_board_states,  \* Board.previous_board_states (list of tobytes())
    ko_position,            \* Board.ko_position
    current_player,         \* GameState.current_player
    pass_count,             \* GameState.pass_count
    move_history,           \* GameState.move_history
    captured_stones,        \* GameState.captured_stones
    territory_map,          \* TerritoryEvaluator.territory_map
    influence_map,          \* TerritoryEvaluator.influence_map
    last,                   \* the last call made by the move source and its return value
    script,                 \* moves the move source still has to play from its opening
    free,                   \* accepted moves made after the opening
    placements,             \* grids after every accepted placement since the Board
                            \* was created or cleared, oldest first
    wiped                   \* the position history that the last clear() threw away

boardVars == <<board, last_board_state, previous_board_states, ko_position>>
gameVars == <<current_player, pass_count, move_history, captured_stones>>
evaluatorVars == <<territory_map, influence_map>>
vars == <<board, last_board_state, previous_board_states, ko_position,
          current_player, pass_count, move_history, captured_stones,
          territory_map, influence_map,
          last, script, free, placements, wiped>>

\* ------------------------------------------------------------------ Board
Idx == 0 .. (Size - 1)

\* Coordinates the move source can hand to place_stone (-1 and Size are off
\* the board).
Coord == (-1) .. Size

InBounds(x, y) == 0 <= x /\ x < Size /\ 0 <= y /\ y < Size

\* np.zeros((size, size))
EmptyBoard == [y \in Idx |-> [x \in Idx |-> EMPTY]]

\* self.board[y, x] = v
SetCell(b, x, y, v) == [b EXCEPT ![y][x] = v]

\* [(x+1, y), (x-1, y), (x, y+1), (x, y-1)]
Adjacent(x, y) == << <<x + 1, y>>, <<x - 1, y>>, <<x, y + 1>>, <<x, y - 1>> >>

Opponent(color) == IF color = BLACK THEN WHITE ELSE BLACK

\* ndarray.tobytes(): the cells in row-major order.
tobytes(b) == [i \in 1 .. (Size * Size) |-> b[(i - 1) \div Size][(i - 1) % Size]]

\* Faulty variant of dfs: the neighbour (cx, cy - 1) is not visited.
RECURSIVE dfs_three_ways(_, _, _, _, _)
dfs_three_ways(b, color, st, cx, cy) ==
    IF <<cx, cy>> \in st.visited
    THEN st
    ELSE LET s0 == [st EXCEPT !.visited = @ \cup {<<cx, cy>>}]
         IN IF InBounds(cx, cy) /\ b[cy][cx] = color
            THEN LET s1 == [s0 EXCEPT !.group = Append(@, <<cx, cy>>)]
                     s2 == dfs_three_ways(b, color, s1, cx + 1, cy)
                     s3 == dfs_three_ways(b, color, s2, cx - 1, cy)
                 IN dfs_three_ways(b, color, s3, cx, cy + 1)
            ELSE s0

\* The nested dfs of find_group; st is [group, visited].
RECURSIVE dfs(_, _, _, _, _)
dfs(b, color, st, cx, cy) ==
    IF <<cx, cy>> \in st.visited
    THEN st
    ELSE LET s0 == [st EXCEPT !.visited = @ \cup {<<cx, cy>>}]
         IN IF InBounds(cx, cy) /\ b[cy][cx] = color
            THEN LET s1 == [s0 EXCEPT !.group = Append(@, <<cx, cy>>)]
                     s2 == dfs(b, color, s1, cx + 1, cy)
                     s3 == dfs(b, color, s2, cx - 1, cy)
                     s4 == dfs(b, color, s3, cx, cy + 1)
                 IN dfs(b, color, s4, cx, cy - 1)
            ELSE s0

find_group(b, x, y) ==
    IF b[y][x] = EMPTY
    THEN << >>
    ELSE dfs(b, b[y][x], [group |-> << >>, visited |-> {}], x, y).group

\* Faulty variant of has_liberties: only the first member of the group is
\* looked at.
has_liberties_first_member(b, group) ==
    /\ group # << >>
    /\ \E k \in 1 .. 4 :
          LET n == Adjacent(group[1][1], group[1][2])[k]
          IN InBounds(n[1], n[2]) /\ b[n[2]][n[1]] = EMPTY

has_liberties(b, group) ==
    \E i \in 1 .. Len(group) :
        \E k \in 1 .. 4 :
            LET n == Adjacent(group[i][1], group[i][2])[k]
            IN InBounds(n[1], n[2]) /\ b[n[2]][n[1]] = EMPTY

\* A call of Board.has_liberties on the Board `self`: lines 168-172 read
\* self.size and self.board and assign nothing.
Board_has_liberties(self, group) ==
    [ret |-> has_liberties(self.board, group), self |-> self]

\* Faulty variant of CapturedUpTo: `captured = group` where the code extends the list.
RECURSIVE CapturedUpToAssign(_, _, _, _, _)
CapturedUpToAssign(b, x, y, opponent, k) ==
    IF k = 0
    THEN << >>
    ELSE LET n == Adjacent(x, y)[k]
             sofar == CapturedUpToAssign(b, x, y, opponent, k - 1)
         IN IF InBounds(n[1], n[2]) /\ b[n[2]][n[1]] = opponent
            THEN LET group == find_group(b, n[1], n[2])
                 IN IF ~has_liberties(b, group) THEN group ELSE sofar
            ELSE sofar

\* The capture loop of place_stone: the list `captured` after looking at the
\* first k neighbours of (x, y); b already holds the placed stone.
RECURSIVE CapturedUpTo(_, _, _, _, _)
CapturedUpTo(b, x, y, opponent, k) ==
    IF k = 0
    THEN << >>
    ELSE LET n == Adjacent(x, y)[k]
             sofar == CapturedUpTo(b, x, y, opponent, k - 1)
         IN IF InBounds(n[1], n[2]) /\ b[n[2]][n[1]] = opponent
            THEN LET group == find_group(b, n[1], n[2])
                 IN IF ~has_liberties(b, group) THEN sofar \o group ELSE sofar
            ELSE sofar

CapturedList(b, x, y, opponent) == CapturedUpTo(b, x, y, opponent, 4)

\* for cx, cy in captured: self.board[cy, cx] = EMPTY
RECURSIVE RemoveCaptured(_, _)
RemoveCaptured(b, captured) ==
    IF captured = << >>
    THEN b
    ELSE RemoveCaptured(SetCell(b, captured[1][1], captured[1][2], EMPTY), Tail(captured))

\* Faulty variant of KoPosition: the neighbours of the captured stone are
\* counted when they hold the colour of the stone just placed.
KoPositionCountCapturer(b, captured, opponent) ==
    IF Len(captured) = 1
    THEN LET cx == captured[1][1]
             cy == captured[1][2]
             surrounding_count ==
                 Cardinality({k \in 1 .. 4 :
                     LET n == Adjacent(cx, cy)[k]
                     IN InBounds(n[1], n[2]) /\ b[n[2]][n[1]] = Opponent(opponent)})
         IN IF surrounding_count = 3 THEN <<cx, cy>> ELSE None
    ELSE None

\* The ko bookkeeping of place_stone: the new value of ko_position.
KoPosition(b, captured, opponent) ==
    IF Len(captured) = 1
    THEN LET cx == captured[1][1]
             cy == captured[1][2]
             surrounding_opponent_count ==
                 Cardinality({k \in 1 .. 4 :
                     LET n == Adjacent(cx, cy)[k]
                     IN InBounds(n[1], n[2]) /\ b[n[2]][n[1]] = opponent})
         IN IF surrounding_opponent_count = 3 THEN <<cx, cy>> ELSE None
    ELSE None

Range(s) == {s[i] : i \in 1 .. Len(s)}

\* Faulty variant of PushState: the history is cut down to its newest entry.
PushStateKeepOne(states, cur) == <<cur>>

\* Faulty variant of PushState: when the list is full the newest of the old
\* entries goes, not the oldest.
PushStateEvictNewest(states, cur) ==
    LET appended == Append(states, cur)
    IN IF Len(appended) > HistoryLimit
       THEN Append(SubSeq(states, 1, Len(states) - 1), cur)
       ELSE appended

\* Faulty variant of PushState: nothing is ever dropped from the list.
PushStateKeepAll(states, cur) == Append(states, cur)

\* append, then pop(0) while more than 8 entries are kept.
PushState(states, cur) ==
    LET appended == Append(states, cur)
    IN IF Len(appended) > HistoryLimit THEN Tail(appended) ELSE appended

\* Faulty variant of InHistory: only the newest entry is compared.
InHistoryNewestOnly(states, cur) == states # << >> /\ cur = states[Len(states)]

\* current_board_state in self.previous_board_states
InHistory(states, cur) == cur \in Range(states)

\* Faulty variant of Revert: the grid is left as the rejected move made it.
RevertNothing(self) == self

\* self.board = self.last_board_state
Revert(self) == [self EXCEPT !.board = self.last_board_state]

\* Faulty variant of CheckRepetition: the grid is appended to the history before the
\* history is searched.
CheckRepetitionAppendFirst(s2, current_board_state) ==
    IF InHistory(PushState(s2.previous_board_states, current_board_state),
                 current_board_state)
    THEN [ret |-> FALSE, line |-> 114,
          self |-> Revert([s2 EXCEPT !.previous_board_states =
                              PushState(@, current_board_state)])]
    ELSE [ret |-> TRUE, line |-> 123,
          self |-> [s2 EXCEPT !.previous_board_states = PushState(@, current_board_state)]]

\* Lines 108-123 of place_stone: the repetition check and the history update,
\* on the Board s2 after the ko bookkeeping.
CheckRepetition(s2, current_board_state) ==
    IF InHistory(s2.previous_board_states, current_board_state)
    THEN [ret |-> FALSE, line |-> 114, self |-> Revert(s2)]
    ELSE [ret |-> TRUE, line |-> 123,
          self |-> [s2 EXCEPT !.previous_board_states = PushState(@, current_board_state)]]

\* Faulty variant of AfterCaptures: a stone left without liberties is not
\* taken back.
AfterCapturesKeepSuicide(s1, x, y, color, captured) ==
    CheckRepetition(
        [s1 EXCEPT !.ko_position = KoPosition(s1.board, captured, Opponent(color))],
        tobytes(s1.board))

\* Lines 81-123 of place_stone, on the Board s1 that holds the placed stone
\* with the captured stones removed.
AfterCaptures(s1, x, y, color, captured) ==
    IF ~has_liberties(s1.board, find_group(s1.board, x, y)) /\ captured = << >>
    THEN [ret |-> FALSE, line |-> 88, self |-> Revert(s1)]
    ELSE CheckRepetition(
             [s1 EXCEPT !.ko_position = KoPosition(s1.board, captured, Opponent(color))],
             tobytes(s1.board))

\* Lines 60-123 of place_stone, with the list `captured` of lines 66-75.
PlaceAndCapture(self, x, y, color, captured) ==
    AfterCaptures(
        [self EXCEPT !.last_board_state = self.board,
                     !.board = RemoveCaptured(SetCell(self.board, x, y, color), captured)],
        x, y, color, captured)

\* Board.place_stone on the Board `self`; the result is [ret, line, self],
\* line being the source line of the return statement taken.
Board_place_stone(self, x, y, color) ==
    IF ~InBounds(x, y)
    THEN [ret |-> FALSE, line |-> 51, self |-> self]
    ELSE IF self.board[y][x] # EMPTY
    THEN [ret |-> FALSE, line |-> 54, self |-> self]
    ELSE IF self.ko_position # None /\ <<x, y>> = self.ko_position
    THEN [ret |-> FALSE, line |-> 58, self |-> self]
    ELSE PlaceAndCapture(self, x, y, color,
             CapturedList(SetCell(self.board, x, y, color), x, y, Opponent(color)))

\* The Board object held by the program.
TheBoard ==
    [board |-> board, last_board_state |-> last_board_state,
     ko_position |-> ko_position, previous_board_states |-> previous_board_states]

\* Faulty variant of Board_clear: the position history is kept.
Board_clear_keep_history(self) ==
    [board |-> EmptyBoard, last_board_state |-> None,
     previous_board_states |-> self.previous_board_states, ko_position |-> None]

\* Board.clear
Board_clear(self) ==
    [board |-> EmptyBoard, last_board_state |-> None,
     previous_board_states |-> << >>, ko_position |-> None]

\* np.zeros((size, size), dtype=int) for size >= 0.
ZeroGrid(size) == [y \in 0 .. (size - 1) |-> [x \in 0 .. (size - 1) |-> EMPTY]]

\* Board(size): np.zeros raises ValueError for a negative dimension, and
\* then no Board exists; otherwise the new Board, which has size*size cells.
Board_construct(size) ==
    IF size < 0
    THEN [raises |-> TRUE, size |-> size, self |-> None]
    ELSE [raises |-> FALSE, size |-> size,
          self |-> [board |-> ZeroGrid(size), last_board_state |-> None,
                    previous_board_states |-> << >>, ko_position |-> None]]

\* The Board the program creates: Board(BOARD_SIZE).
Board_init == Board_construct(Size).self

\* Faulty variant of get_stone: the bounds test is dropped, so that indices
\* wrap around as Python's negative indices do.
get_stone_wrap(self, x, y) == <<self.board[y % Size][x % Size]>>

\* Board.get_stone: None off the board; on the board the cell's value, held
\* in a one-element tuple so that None differs from every value.
get_stone(self, x, y) ==
    IF InBounds(x, y) THEN <<self.board[y][x]>> ELSE None

\* The disposable copy that get_legal_moves makes of the Board.
BoardCopy(self) ==
    [board |-> self.board, last_board_state |-> self.last_board_state,
     ko_position |-> self.ko_position,
     previous_board_states |-> self.previous_board_states]

\* Faulty variant of LegalMovesUpTo: every empty cell is listed, without
\* trying the move on a copy.
RECURSIVE LegalMovesUpToEmptyCells(_, _, _)
LegalMovesUpToEmptyCells(self, color, k) ==
    IF k = 0
    THEN << >>
    ELSE LET x == (k - 1) % Size
             y == (k - 1) \div Size
             sofar == LegalMovesUpToEmptyCells(self, color, k - 1)
         IN IF self.board[y][x] = EMPTY THEN Append(sofar, <<x, y>>) ELSE sofar

\* The loops of get_legal_moves (y outer, x inner): the list legal_moves
\* after the first k cells.
RECURSIVE LegalMovesUpTo(_, _, _)
LegalMovesUpTo(self, color, k) ==
    IF k = 0
    THEN << >>
    ELSE LET x == (k - 1) % Size
             y == (k - 1) \div Size
             sofar == LegalMovesUpTo(self, color, k - 1)
         IN IF /\ self.board[y][x] = EMPTY
               /\ (self.ko_position = None \/ <<x, y>> # self.ko_position)
            THEN IF Board_place_stone(BoardCopy(self), x, y, color).ret
                 THEN Append(sofar, <<x, y>>)
                 ELSE sofar
            ELSE sofar

\* Board.get_legal_moves
get_legal_moves(self, color) == LegalMovesUpTo(self, color, Size * Size)

\* Which of the copy's mutable objects are the Board's own: lines 201, 202
\* and 204 bind the fields of board_copy to the results of ndarray.copy() and
\* list.copy(), which are new objects, so none is shared.  This variant
\* binds board_copy.board to self.board itself.
SharedWithCopyGrid(self) == {"board"}

\* The fields of board_copy that refer to the very object the Board's field
\* refers to (lines 200-204).
SharedWithCopy(self) == {}

\* The contents, after place_stone(x, y, color) on `self`, of the two objects
\* that self.board and self.previous_board_states referred to on entry.
\* Lines 64 and 79 write into the array; lines 87 and 113 rebind self.board
\* and leave the array as written.  Lines 117 and 121 change the list itself.
WrittenByPlaceStone(self, x, y, color) ==
    IF Board_place_stone(self, x, y, color).line \in {51, 54, 58}
    THEN [board |-> self.board, previous_board_states |-> self.previous_board_states]
    ELSE [board |-> RemoveCaptured(SetCell(self.board, x, y, color),
                        CapturedList(SetCell(self.board, x, y, color), x, y, Opponent(color))),
          previous_board_states |->
              Board_place_stone(self, x, y, color).self.previous_board_states]

\* The Board `self` after one candidate of get_legal_moves was tried on
\* board_copy (line 206): what the trial wrote into shared objects shows.
AfterTrial(self, x, y, color) ==
    [self EXCEPT
        !.board = IF "board" \in SharedWithCopy(self)
                  THEN WrittenByPlaceStone(BoardCopy(self), x, y, color).board
                  ELSE @,
        !.previous_board_states =
                  IF "previous_board_states" \in SharedWithCopy(self)
                  THEN WrittenByPlaceStone(BoardCopy(self), x, y, color).previous_board_states
                  ELSE @]

\* The Board `self` after the first k cells of the loops of get_legal_moves.
RECURSIVE BoardAfterTrials(_, _, _)
BoardAfterTrials(self, color, k) ==
    IF k = 0
    THEN self
    ELSE LET x == (k - 1) % Size
             y == (k - 1) \div Size
             sofar == BoardAfterTrials(self, color, k - 1)
         IN IF /\ sofar.board[y][x] = EMPTY
               /\ (sofar.ko_position = None \/ <<x, y>> # sofar.ko_position)
            THEN AfterTrial(sofar, x, y, color)
            ELSE sofar

\* A call of Board.get_legal_moves: the list returned and the Board after it.
Board_get_legal_moves(self, color) ==
    [ret |-> get_legal_moves(self, color),
     self |-> BoardAfterTrials(self, color, Size * Size)]

\* -------------------------------------------------------------- GameState
\* GameState.count_stones
count_stones(b) ==
    [c \in {BLACK, WHITE} |->
        Cardinality({p \in Idx \X Idx : b[p[2]][p[1]] = c})]

\* Faulty variant of RecordPlacement: pass_count is not reset.
RecordPlacementKeepPasses(gs, r, x, y, stones_before, stones_after) ==
    LET opponent == Opponent(gs.current_player)
        captured == stones_before[opponent] - stones_after[opponent]
    IN [ret |-> TRUE, line |-> r.line, self |-> r.self,
        gs |-> [move_history |-> Append(gs.move_history, <<x, y, gs.current_player>>),
                pass_count |-> gs.pass_count,
                captured_stones |->
                    IF captured > 0
                    THEN [gs.captured_stones EXCEPT ![gs.current_player] = @ + captured]
                    ELSE gs.captured_stones,
                current_player |-> Opponent(gs.current_player)]]

\* Faulty variant of RecordPlacement: the player is not switched.
RecordPlacementSamePlayer(gs, r, x, y, stones_before, stones_after) ==
    LET opponent == Opponent(gs.current_player)
        captured == stones_before[opponent] - stones_after[opponent]
    IN [ret |-> TRUE, line |-> r.line, self |-> r.self,
        gs |-> [move_history |-> Append(gs.move_history, <<x, y, gs.current_player>>),
                pass_count |-> 0,
                captured_stones |->
                    IF captured > 0
                    THEN [gs.captured_stones EXCEPT ![gs.current_player] = @ + captured]
                    ELSE gs.captured_stones,
                current_player |-> gs.current_player]]

\* Faulty variant of RecordPlacement: the captures go to the tally of the
\* colour that lost the stones.
RecordPlacementCreditOpponent(gs, r, x, y, stones_before, stones_after) ==
    LET opponent == Opponent(gs.current_player)
        captured == stones_before[opponent] - stones_after[opponent]
    IN [ret |-> TRUE, line |-> r.line, self |-> r.self,
        gs |-> [move_history |-> Append(gs.move_history, <<x, y, gs.current_player>>),
                pass_count |-> 0,
                captured_stones |->
                    IF captured > 0
                    THEN [gs.captured_stones EXCEPT ![opponent] = @ + captured]
                    ELSE gs.captured_stones,
                current_player |-> Opponent(gs.current_player)]]

\* Faulty variant of RecordPlacement: a capturing move scores one point,
\* however many stones it took.
RecordPlacementCountOnce(gs, r, x, y, stones_before, stones_after) ==
    LET opponent == Opponent(gs.current_player)
        captured == stones_before[opponent] - stones_after[opponent]
    IN [ret |-> TRUE, line |-> r.line, self |-> r.self,
        gs |-> [move_history |-> Append(gs.move_history, <<x, y, gs.current_player>>),
                pass_count |-> 0,
                captured_stones |->
                    IF captured > 0
                    THEN [gs.captured_stones EXCEPT ![gs.current_player] = @ + 1]
                    ELSE gs.captured_stones,
                current_player |-> Opponent(gs.current_player)]]

\* Lines 41-59 of GameState.place_stone: the bookkeeping after the Board
\* accepted the stone (r is the Board's result).
RecordPlacement(gs, r, x, y, stones_before, stones_after) ==
    LET opponent == Opponent(gs.current_player)
        captured == stones_before[opponent] - stones_after[opponent]
    IN [ret |-> TRUE, line |-> r.line, self |-> r.self,
        gs |-> [move_history |-> Append(gs.move_history, <<x, y, gs.current_player>>),
                pass_count |-> 0,
                captured_stones |->
                    IF captured > 0
                    THEN [gs.captured_stones EXCEPT ![gs.current_player] = @ + captured]
                    ELSE gs.captured_stones,
                current_player |-> Opponent(gs.current_player)]]

\* Faulty variant of AfterBoardCall: the move is logged before the Board is asked.
AfterBoardCallLogFirst(gs, self, r, x, y) ==
    IF ~r.ret
    THEN [ret |-> FALSE, line |-> r.line, self |-> r.self,
          gs |-> [gs EXCEPT !.move_history = Append(@, <<x, y, gs.current_player>>)]]
    ELSE RecordPlacement(gs, r, x, y, count_stones(self.board), count_stones(r.self.board))

\* Lines 37-59 of GameState.place_stone, r being the result of
\* self.board.place_stone(x, y, self.current_player).
AfterBoardCall(gs, self, r, x, y) ==
    IF ~r.ret
    THEN [ret |-> FALSE, line |-> r.line, self |-> r.self, gs |-> gs]
    ELSE RecordPlacement(gs, r, x, y, count_stones(self.board), count_stones(r.self.board))

\* GameState.place_stone(x, y) on the GameState `gs` whose board is `self`;
\* the result is [ret, line, self, gs].
GameState_place_stone(gs, self, x, y) ==
    AfterBoardCall(gs, self, Board_place_stone(self, x, y, gs.current_player), x, y)

\* Faulty variant of GameState_pass_turn: the result is computed before the increment.
GameState_pass_turn_early(gs) ==
    LET g1 == [gs EXCEPT !.pass_count = @ + 1,
                         !.move_history = Append(@, <<"pass", gs.current_player>>)]
        g2 == [g1 EXCEPT !.current_player = Opponent(gs.current_player)]
    IN [ret |-> (gs.pass_count >= 2), gs |-> g2]

\* Faulty variant of GameState_pass_turn: the tallies start again at 0.
GameState_pass_turn_reset_tallies(gs) ==
    LET g1 == [gs EXCEPT !.pass_count = @ + 1,
                         !.move_history = Append(@, <<"pass", gs.current_player>>),
                         !.captured_stones = [c \in {BLACK, WHITE} |-> 0]]
        g2 == [g1 EXCEPT !.current_player = Opponent(gs.current_player)]
    IN [ret |-> (g2.pass_count >= 2), gs |-> g2]

\* GameState.pass_turn() on the GameState `gs`; the result is [ret, gs].
GameState_pass_turn(gs) ==
    LET g1 == [gs EXCEPT !.pass_count = @ + 1,
                         !.move_history = Append(@, <<"pass", gs.current_player>>)]
        g2 == [g1 EXCEPT !.current_player = Opponent(gs.current_player)]
    IN [ret |-> (g2.pass_count >= 2), gs |-> g2]

\* One call of flood_fill; run is [st, calls], calls being the stack of the
\* calls still to be made with the running one first. An empty cell pushes
\* its four recursive calls in the order of lines 166-169.
flood_fill_call(b, run) ==
    LET cx == run.calls[1][1]
        cy == run.calls[1][2]
    IN IF run.calls[1] \in run.st.visited \/ ~InBounds(run.calls[1][1], run.calls[1][2])
       THEN [run EXCEPT !.calls = Tail(@)]
       ELSE IF b[cy][cx] = EMPTY
       THEN [st |-> [run.st EXCEPT !.visited = @ \cup {<<cx, cy>>},
                                   !.region = Append(@, <<cx, cy>>)],
             calls |-> << <<cx + 1, cy>>, <<cx - 1, cy>>, <<cx, cy + 1>>, <<cx, cy - 1>> >>
                       \o Tail(run.calls)]
       ELSE [st |-> [run.st EXCEPT !.border_colors = @ \cup {b[cy][cx]}],
             calls |-> Tail(run.calls)]

\* The next n calls of the stack (fewer if it empties), made in order.
RECURSIVE flood_fill_calls(_, _, _)
flood_fill_calls(b, run, n) ==
    IF n = 0 \/ run.calls = << >>
    THEN run
    ELSE IF n = 1
    THEN flood_fill_call(b, run)
    ELSE flood_fill_calls(b, flood_fill_calls(b, run, n \div 2), n - n \div 2)

\* The nested flood_fill of calculate_territory called on (cx, cy); st is
\* [visited, region, border_colors]. A call on an empty cell makes four more,
\* so at most 4 * Size * Size + 1 calls are made.
flood_fill(b, st, cx, cy) ==
    flood_fill_calls(b, [st |-> st, calls |-> << <<cx, cy>> >>], 4 * Size * Size + 1).st

\* Lines 143-172 of calculate_territory: visited and empty_regions after the
\* first k cells of the scan (y outer, x inner).
RECURSIVE RegionsUpTo(_, _)
RegionsUpTo(b, k) ==
    IF k = 0
    THEN [visited |-> {}, empty_regions |-> << >>]
    ELSE LET x == (k - 1) % Size
             y == (k - 1) \div Size
             prev == RegionsUpTo(b, k - 1)
         IN IF b[y][x] = EMPTY /\ <<x, y>> \notin prev.visited
            THEN LET f == flood_fill(b, [visited |-> prev.visited, region |-> << >>,
                                         border_colors |-> {}], x, y)
                 IN [visited |-> f.visited,
                     empty_regions |->
                         Append(prev.empty_regions,
                                [region |-> f.region, border_colors |-> f.border_colors])]
            ELSE prev

\* for x, y in region: territory_map[y, x] = color
RECURSIVE MarkRegion(_, _, _)
MarkRegion(map, region, color) ==
    IF region = << >>
    THEN map
    ELSE MarkRegion(SetCell(map, region[1][1], region[1][2], color), Tail(region), color)

\* Faulty variant of AssignRegion: a region counts for every colour found on
\* its border.
AssignRegionAnyBorder(acc, r) ==
    [count |-> [c \in {BLACK, WHITE} |->
                   IF c \in r.border_colors THEN acc.count[c] + Len(r.region)
                   ELSE acc.count[c]],
     territory_map |-> acc.territory_map]

\* Faulty variant of AssignRegion: a region with stones of both colours on
\* its border goes to the colour with the smaller constant.
AssignRegionFirstBorder(acc, r) ==
    IF r.border_colors # {}
    THEN LET color == CHOOSE c \in r.border_colors : \A d \in r.border_colors : c <= d
         IN [count |-> [acc.count EXCEPT ![color] = @ + Len(r.region)],
             territory_map |-> MarkRegion(acc.territory_map, r.region, color)]
    ELSE acc

\* Lines 176-183 of calculate_territory for one region r; acc holds the
\* territory counts and the territory map so far.
AssignRegion(acc, r) ==
    IF Cardinality(r.border_colors) = 1
    THEN LET color == CHOOSE c \in r.border_colors : TRUE
         IN [count |-> [acc.count EXCEPT ![color] = @ + Len(r.region)],
             territory_map |-> MarkRegion(acc.territory_map, r.region, color)]
    ELSE acc

\* Lines 175-183 of calculate_territory: the loop over empty_regions.
RECURSIVE AssignRegions(_, _)
AssignRegions(acc, regions) ==
    IF regions = << >>
    THEN acc
    ELSE AssignRegions(AssignRegion(acc, Head(regions)), Tail(regions))

\* GameState.calculate_territory on the grid b: the two territory counts and
\* the territory map.
calculate_territory(b) ==
    AssignRegions([count |-> [c \in {BLACK, WHITE} |-> 0], territory_map |-> ZeroGrid(Size)],
                  RegionsUpTo(b, Size * Size).empty_regions)

\* Twice the komi of 6.5 points: scores are held in half points.
Komi2 == 13

\* GameState.calculate_score on the grid b, in half points.
GameState_calculate_score(b) ==
    LET territory == calculate_territory(b).count
        stones == count_stones(b)
    IN [c \in {BLACK, WHITE} |->
           IF c = WHITE
           THEN 2 * (stones[WHITE] + territory[WHITE]) + Komi2
           ELSE 2 * (stones[BLACK] + territory[BLACK])]

\* ----------------------------------------------------- TerritoryEvaluator
\* The float entries of territory_map and influence_map are held as integers
\* in units of 1/Scale, every division rounding down.
Scale == 10000

\* One call of TerritoryEvaluator_flood_fill; run is [st, calls], calls being the stack of the
\* calls still to be made with the running one first. An empty cell pushes
\* its four recursive calls in the order of lines 196-199.
TerritoryEvaluator_flood_fill_call(b, run) ==
    LET cx == run.calls[1][1]
        cy == run.calls[1][2]
    IN IF ~InBounds(run.calls[1][1], run.calls[1][2]) \/ run.calls[1] \in run.st.visited
       THEN [run EXCEPT !.calls = Tail(@)]
       ELSE IF b[cy][cx] = EMPTY
       THEN [st |-> [run.st EXCEPT !.visited = @ \cup {<<cx, cy>>},
                                   !.empty_points = Append(@, <<cx, cy>>)],
             calls |-> << <<cx + 1, cy>>, <<cx - 1, cy>>, <<cx, cy + 1>>, <<cx, cy - 1>> >>
                       \o Tail(run.calls)]
       ELSE [st |-> [run.st EXCEPT !.border_stones = @ \cup {b[cy][cx]}],
             calls |-> Tail(run.calls)]

\* The next n calls of the stack (fewer if it empties), made in order.
RECURSIVE TerritoryEvaluator_flood_fill_calls(_, _, _)
TerritoryEvaluator_flood_fill_calls(b, run, n) ==
    IF n = 0 \/ run.calls = << >>
    THEN run
    ELSE IF n = 1
    THEN TerritoryEvaluator_flood_fill_call(b, run)
    ELSE TerritoryEvaluator_flood_fill_calls(b, TerritoryEvaluator_flood_fill_calls(b, run, n \div 2), n - n \div 2)

\* TerritoryEvaluator._flood_fill called on (x, y); st is
\* [visited, empty_points, border_stones].
TerritoryEvaluator_flood_fill(b, st, x, y) ==
    TerritoryEvaluator_flood_fill_calls(b, [st |-> st, calls |-> << <<x, y>> >>],
                                        4 * Size * Size + 1).st

\* Step 1 of evaluate: 10 on Black stones, -10 on White stones, 0 elsewhere.
StoneValues(b) ==
    [y \in Idx |-> [x \in Idx |->
        IF b[y][x] = BLACK THEN 10 * Scale
        ELSE IF b[y][x] = WHITE THEN (-10) * Scale
        ELSE 0]]

\* Lines 62-78 of evaluate: the value of an empty region, border_stones being
\* the set of colours found on its border.
TerritoryValue(border_stones) ==
    LET black_borders == Cardinality({stone \in border_stones : stone = BLACK})
        white_borders == Cardinality({stone \in border_stones : stone = WHITE})
    IN IF black_borders > 0 /\ white_borders = 0 THEN 5 * Scale
       ELSE IF white_borders > 0 /\ black_borders = 0 THEN (-5) * Scale
       ELSE IF black_borders > 0 /\ white_borders > 0
       THEN (4 * Scale * black_borders) \div (black_borders + white_borders) - 2 * Scale
       ELSE 0

\* for px, py in empty_points: territory_map[py, px] = territory_value
RECURSIVE AssignPoints(_, _, _)
AssignPoints(map, empty_points, territory_value) ==
    IF empty_points = << >>
    THEN map
    ELSE AssignPoints(SetCell(map, empty_points[1][1], empty_points[1][2], territory_value),
                      Tail(empty_points), territory_value)

\* Step 2 of evaluate (lines 50-82): visited and territory_map after the
\* first k cells of the scan.
RECURSIVE FillUpTo(_, _)
FillUpTo(b, k) ==
    IF k = 0
    THEN [visited |-> {}, territory_map |-> StoneValues(b)]
    ELSE LET x == (k - 1) % Size
             y == (k - 1) \div Size
             prev == FillUpTo(b, k - 1)
         IN IF b[y][x] = EMPTY /\ <<x, y>> \notin prev.visited
            THEN LET f == TerritoryEvaluator_flood_fill(b,
                              [visited |-> prev.visited, empty_points |-> << >>,
                               border_stones |-> {}], x, y)
                 IN [visited |-> f.visited,
                     territory_map |->
                         AssignPoints(prev.territory_map, f.empty_points,
                                      TerritoryValue(f.border_stones))]
            ELSE prev

\* A map with its rows laid end to end, and the entry of (x, y) in it.
RECURSIVE RowsUpTo(_, _)
RowsUpTo(grid, k) ==
    IF k = 0
    THEN << >>
    ELSE Append(RowsUpTo(grid, k - 1), grid[(k - 1) \div Size][(k - 1) % Size])
Flat(grid) == RowsUpTo(grid, Size * Size)
MapAt(flat, x, y) == flat[y * Size + x + 1]
Grid(flat) == [y \in Idx |-> [x \in Idx |-> MapAt(flat, x, y)]]

\* decay_matrix[dy+1, dx+1] in fifths (0.2 is 1, 0.4 is 2), doubled next to
\* a stone; 0 for a neighbour off the board.
Weight(b, x, y, dx, dy) ==
    IF ~InBounds(x + dx, y + dy)
    THEN 0
    ELSE (IF dx # 0 /\ dy # 0 THEN 1 ELSE 2) * (IF b[y + dy][x + dx] # EMPTY THEN 2 ELSE 1)

\* influence * weight of one neighbour.
Influence(b, map, x, y, dx, dy) ==
    IF ~InBounds(x + dx, y + dy)
    THEN 0
    ELSE MapAt(map, x + dx, y + dy) * Weight(b, x, y, dx, dy)

\* Lines 103-132: the new value of the empty cell (x, y) when
\* potential_territory is set: 0.6 * current + 0.4 * weighted mean.
PotentialValue(b, map, x, y) ==
    LET weight_sum ==
            Weight(b, x, y, -1, -1) + Weight(b, x, y, 0, -1) + Weight(b, x, y, 1, -1)
            + Weight(b, x, y, -1, 0) + Weight(b, x, y, 1, 0)
            + Weight(b, x, y, -1, 1) + Weight(b, x, y, 0, 1) + Weight(b, x, y, 1, 1)
        influence_sum ==
            Influence(b, map, x, y, -1, -1) + Influence(b, map, x, y, 0, -1)
            + Influence(b, map, x, y, 1, -1) + Influence(b, map, x, y, -1, 0)
            + Influence(b, map, x, y, 1, 0) + Influence(b, map, x, y, -1, 1)
            + Influence(b, map, x, y, 0, 1) + Influence(b, map, x, y, 1, 1)
    IN IF weight_sum > 0
       THEN (3 * MapAt(map, x, y) * weight_sum + 2 * influence_sum) \div (5 * weight_sum)
       ELSE MapAt(map, x, y)

\* The value of a neighbour in the simpler propagation, 0 off the board.
NeighbourValue(map, nx, ny) == IF InBounds(nx, ny) THEN MapAt(map, nx, ny) ELSE 0
NeighbourCount(nx, ny) == IF InBounds(nx, ny) THEN 1 ELSE 0

\* Lines 135-153: the new value of the empty cell (x, y) when
\* potential_territory is not set: 0.7 * current + 0.3 * mean of neighbours.
SimpleValue(map, x, y) ==
    LET neighbor_count ==
            NeighbourCount(x + 1, y) + NeighbourCount(x - 1, y)
            + NeighbourCount(x, y + 1) + NeighbourCount(x, y - 1)
        neighbors_influence ==
            NeighbourValue(map, x + 1, y) + NeighbourValue(map, x - 1, y)
            + NeighbourValue(map, x, y + 1) + NeighbourValue(map, x, y - 1)
    IN IF neighbor_count > 0
       THEN (7 * MapAt(map, x, y) * neighbor_count + 3 * neighbors_influence)
                \div (10 * neighbor_count)
       ELSE MapAt(map, x, y)

\* Faulty variant of PropagateCells: the smoothing is applied to every cell,
\* the occupied ones included.
RECURSIVE PropagateCellsAll(_, _, _, _, _)
PropagateCellsAll(b, map, potential_territory, first, last_cell) ==
    IF first = last_cell
    THEN LET x == (first - 1) % Size
             y == (first - 1) \div Size
         IN << IF potential_territory
               THEN PotentialValue(b, map, x, y)
               ELSE SimpleValue(map, x, y) >>
    ELSE PropagateCellsAll(b, map, potential_territory, first, (first + last_cell) \div 2)
         \o PropagateCellsAll(b, map, potential_territory,
                              (first + last_cell) \div 2 + 1, last_cell)

\* One pass of step 3 (lines 96-155): the entries first .. last_cell of
\* new_territory_map in row-major order; every empty cell gets its new value
\* from the map of the pass before, cells with stones keep theirs.
RECURSIVE PropagateCells(_, _, _, _, _)
PropagateCells(b, map, potential_territory, first, last_cell) ==
    IF first = last_cell
    THEN LET x == (first - 1) % Size
             y == (first - 1) \div Size
         IN << IF b[y][x] = EMPTY
               THEN IF potential_territory
                    THEN PotentialValue(b, map, x, y)
                    ELSE SimpleValue(map, x, y)
               ELSE MapAt(map, x, y) >>
    ELSE PropagateCells(b, map, potential_territory, first, (first + last_cell) \div 2)
         \o PropagateCells(b, map, potential_territory,
                           (first + last_cell) \div 2 + 1, last_cell)

PropagateOnce(b, map, potential_territory) ==
    PropagateCells(b, map, potential_territory, 1, Len(map))

\* Step 3 of evaluate: the given number of passes.
RECURSIVE Propagate(_, _, _, _)
Propagate(b, map, potential_territory, iterations) ==
    IF iterations = 0 \/ map = << >>
    THEN map
    ELSE Propagate(b, PropagateOnce(b, map, potential_territory),
                   potential_territory, iterations - 1)

\* The larger of two numbers, the magnitude of a number, and the largest
\* magnitude in a map.
Max(a, b) == IF a >= b THEN a ELSE b
Abs(a) == IF a >= 0 THEN a ELSE -a
MaxAbs(map) ==
    CHOOSE m \in {Abs(map[i]) : i \in 1 .. Len(map)} :
        \A i \in 1 .. Len(map) : Abs(map[i]) <= m

\* Lines 158-159 of evaluate: territory_map / max(np.max(np.abs(...)), 1).
RECURSIVE NormalizedUpTo(_, _, _)
NormalizedUpTo(map, abs_max, k) ==
    IF k = 0
    THEN << >>
    ELSE Append(NormalizedUpTo(map, abs_max, k - 1), (map[k] * Scale) \div abs_max)
\* Faulty variant of Normalized: the divisor is the largest magnitude plus 1
\* instead of the larger of the two.
NormalizedBySum(map) == NormalizedUpTo(map, MaxAbs(map) + Scale, Len(map))

\* Line 159 with the divisor of line 158.
Normalized(map) == NormalizedUpTo(map, Max(MaxAbs(map), Scale), Len(map))

\* The two maps that evaluate stores and returns, from the map after step 3.
BothMaps(map) == [territory_map |-> Grid(map), influence_map |-> Grid(Normalized(map))]

\* TerritoryEvaluator.evaluate on the grid b.
evaluate(b, potential_territory) ==
    BothMaps(Propagate(b, Flat(FillUpTo(b, Size * Size).territory_map),
                       potential_territory, IF potential_territory THEN 8 ELSE 3))

\* A call of TerritoryEvaluator.evaluate on an evaluator whose Board is `self`:
\* the Board is read through self.board.size (line 31) and get_stone (lines
\* 42, 54, 100, 113, 186, 190) and nothing of it is assigned.
TerritoryEvaluator_evaluate(self, potential_territory) ==
    [ret |-> evaluate(self.board, potential_territory), self |-> self]

\* TerritoryEvaluator.__init__
TerritoryEvaluator_init ==
    [territory_map |-> None, influence_map |-> None, potential_territory |-> TRUE]

\* Lines 208-209 of get_territory_ownership: evaluate() is called only while
\* no territory map is stored.
EnsureEvaluated(ev, b) ==
    IF ev.territory_map = None
    THEN LET maps == evaluate(b, ev.potential_territory)
         IN [ev EXCEPT !.territory_map = maps.territory_map,
                       !.influence_map = maps.influence_map]
    ELSE ev

\* Faulty variant of Ownership: a value of exactly 0 is the only neutral one,
\* and small values are counted for nobody.
OwnershipZeroNeutral(influence) ==
    IF 2 * influence > Scale THEN BLACK
    ELSE IF 2 * influence < -Scale THEN WHITE
    ELSE IF influence = 0 THEN EMPTY
    ELSE -1

\* Lines 218-224: the class of an empty cell whose territory_map entry is
\* `influence` (EMPTY standing for neutral); the thresholds are 0.5 and -0.5.
Ownership(influence) ==
    IF 2 * influence > Scale THEN BLACK
    ELSE IF 2 * influence < -Scale THEN WHITE
    ELSE EMPTY

\* TerritoryEvaluator.get_territory_ownership on the evaluator ev whose board
\* has the grid b; the result is [ret, ev], ret being the three counts.
get_territory_ownership(ev, b) ==
    LET evaluated == EnsureEvaluated(ev, b)
    IN [ret |-> [c \in {BLACK, WHITE, EMPTY} |->
                   Cardinality({p \in Idx \X Idx :
                       /\ get_stone([board |-> b], p[1], p[2]) = <<EMPTY>>
                       /\ Ownership(evaluated.territory_map[p[2]][p[1]]) = c})],
        ev |-> evaluated]

\* TerritoryEvaluator._count_stones
TerritoryEvaluator_count_stones(b) ==
    [c \in {BLACK, WHITE} |->
        Cardinality({p \in Idx \X Idx : get_stone([board |-> b], p[1], p[2]) = <<c>>})]

\* TerritoryEvaluator.calculate_score(captured_stones), in half points; the
\* result is [ret, ev].
TerritoryEvaluator_calculate_score(ev, b, captured) ==
    LET owned == get_territory_ownership(ev, b)
        stones == TerritoryEvaluator_count_stones(b)
    IN [ret |-> [c \in {BLACK, WHITE} |->
                    IF c = WHITE
                    THEN 2 * (stones[WHITE] + owned.ret[WHITE]) + Komi2
                    ELSE 2 * (stones[BLACK] + owned.ret[BLACK])],
        ev |-> owned.ev]

\* The TerritoryEvaluator object held by the program.
TheEvaluator ==
    [territory_map |-> territory_map, influence_map |-> influence_map,
     potential_territory |-> TRUE]

\* The GameState object held by the program.
TheGame ==
    [current_player |-> current_player, pass_count |-> pass_count,
     move_history |-> move_history, captured_stones |-> captured_stones]

\* GameState.is_game_over
is_game_over == pass_count >= 2

\* ------------------------------------------------------------ move source
PassKey == <<"pass">>
ClearKey == <<"clear">>

\* Opening lines the move source may start with (clicks and pass keys).
KoOpening ==
    << <<1, 1>>, <<0, 1>>, <<2, 0>>, <<0, 2>>, <<0, 0>>, <<1, 0>> >>
TwoGroupsOpening ==
    << <<0, 1>>, <<0, 0>>, <<2, 1>>, <<2, 0>> >>
WrapOpening ==
    << <<2, 0>>, <<1, 0>>, <<2, 1>>, <<1, 1>>, <<1, 2>>, <<0, 1>>, <<0, 2>>, PassKey >>
KoElsewhereOpening == KoOpening \o << <<2, 1>> >>
KoBothElsewhereOpening == KoOpening \o << <<2, 1>>, <<2, 2>> >>
PassesOpening == << <<1, 1>>, PassKey, PassKey >>
ClearOpening == KoOpening \o << ClearKey >>
KoPassesOpening == KoOpening \o << PassKey, PassKey >>
Openings ==
    {KoOpening, KoElsewhereOpening, KoBothElsewhereOpening,
     TwoGroupsOpening, WrapOpening, PassesOpening, ClearOpening, KoPassesOpening}

Scripted(e) ==
    IF script = << >>
    THEN TRUE
    ELSE IF Len(Head(script)) = Len(e) THEN Head(script) = e ELSE FALSE
Budget(accepted) == IF script = << >> /\ accepted THEN free < MaxFree ELSE TRUE
NextFree(accepted) == IF script = << >> /\ accepted THEN free + 1 ELSE free
NextScript == IF script = << >> THEN script ELSE Tail(script)

\* ------------------------------------------------------------------ Init
Start(openings) ==
    /\ board = Board_init.board
    /\ last_board_state = Board_init.last_board_state
    /\ previous_board_states = Board_init.previous_board_states
    /\ ko_position = Board_init.ko_position
    /\ current_player = BLACK
    /\ pass_count = 0
    /\ move_history = << >>
    /\ captured_stones = [c \in {BLACK, WHITE} |-> 0]
    /\ territory_map = TerritoryEvaluator_init.territory_map
    /\ influence_map = TerritoryEvaluator_init.influence_map
    /\ last = [op |-> "init", ret |-> FALSE, line |-> 0]
    /\ script \in openings
    /\ free = 0
    /\ placements = << >>
    /\ wiped = {}

Init == Start(Openings)

\* The move source calls game_state.place_stone(x, y) (a click on the board).
PlaceStone(x, y) ==
    \E r \in {GameState_place_stone(TheGame, TheBoard, x, y)} :
       /\ Scripted(<<x, y>>)
       /\ Budget(r.ret)
       /\ board' = r.self.board
       /\ last_board_state' = r.self.last_board_state
       /\ previous_board_states' = r.self.previous_board_states
       /\ ko_position' = r.self.ko_position
       /\ current_player' = r.gs.current_player
       /\ pass_count' = r.gs.pass_count
       /\ move_history' = r.gs.move_history
       /\ captured_stones' = r.gs.captured_stones
       /\ placements' = IF r.ret THEN Append(placements, r.self.board) ELSE placements
       /\ last' = [op |-> "place_stone", ret |-> r.ret, line |-> r.line]
       /\ free' = NextFree(r.ret)
       /\ script' = NextScript
       /\ UNCHANGED <<evaluatorVars, wiped>>

\* The move source calls game_state.pass_turn() (the pass key).
PassTurn ==
    \E r \in {GameState_pass_turn(TheGame)} :
       /\ Scripted(PassKey)
       /\ Budget(TRUE)
       /\ current_player' = r.gs.current_player
       /\ pass_count' = r.gs.pass_count
       /\ move_history' = r.gs.move_history
       /\ captured_stones' = r.gs.captured_stones
       /\ last' = [op |-> "pass_turn", ret |-> r.ret, line |-> 75]
       /\ free' = NextFree(TRUE)
       /\ script' = NextScript
       /\ UNCHANGED <<boardVars, evaluatorVars, placements, wiped>>

\* The move source calls board.clear(), where its opening says so.
Clear ==
    \E r \in {Board_clear(TheBoard)} :
       /\ script # << >>
       /\ Scripted(ClearKey)
       /\ board' = r.board
       /\ last_board_state' = r.last_board_state
       /\ previous_board_states' = r.previous_board_states
       /\ ko_position' = r.ko_position
       /\ wiped' = Range(previous_board_states)
       /\ placements' = << >>
       /\ last' = [op |-> "clear", ret |-> FALSE, line |-> 218]
       /\ script' = NextScript
       /\ UNCHANGED <<gameVars, evaluatorVars, free>>

Next ==
    \/ \E x \in Coord, y \in Coord : PlaceStone(x, y)
    \/ PassTurn
    \/ Clear

Spec == Init /\ [][Next]_vars

\* ------------------------------------------- runs with a TerritoryEvaluator
\* Opening lines of the runs in which a TerritoryEvaluator of the Board is
\* consulted: two far corners, two touching stones, and the ko position.
CornersOpening == << <<0, 0>>, <<2, 2>> >>
ContactOpening == << <<0, 1>>, <<0, 0>> >>
EvaluatorOpenings == {<< >>, CornersOpening, ContactOpening, KoOpening}

EvaluatorInit == Start(EvaluatorOpenings)

\* A caller asks the evaluator for get_territory_ownership(), at any moment
\* between the placements.
GetTerritoryOwnership ==
    \E r \in {get_territory_ownership(TheEvaluator, board)} :
       /\ territory_map' = r.ev.territory_map
       /\ influence_map' = r.ev.influence_map
       /\ last' = [op |-> "get_territory_ownership", ret |-> FALSE, line |-> 226]
       /\ UNCHANGED <<boardVars, gameVars, script, free, placements, wiped>>

EvaluatorNext ==
    \/ \E x \in Coord, y \in Coord : PlaceStone(x, y)
    \/ GetTerritoryOwnership

EvaluatorSpec == EvaluatorInit /\ [][EvaluatorNext]_vars

\* ------------------------------------------------ runs replaying a record
\* load_game_from_sgf replays the moves of a game record on a cleared Board
\* and a new GameState: each move names its colour, "B" or "W".
SgfColours == {"B", "W"}

\* Faulty variant of SetCurrentPlayer: the colour of the record is ignored.
SetCurrentPlayerKeep(gs, color) == gs

\* main.py lines 412-417: game_state.current_player is set from the colour
\* of the move.
SetCurrentPlayer(gs, color) ==
    [gs EXCEPT !.current_player = IF color = "B" THEN BLACK ELSE WHITE]

\* main.py lines 412-420 for a move that is not a pass.
ReplayCall(gs, self, x, y, color) ==
    GameState_place_stone(SetCurrentPlayer(gs, color), self, x, y)

\* GameState(board), lines 10-21 of game_state.py: the fields of a new
\* GameState.
GameState_init ==
    [current_player |-> BLACK, pass_count |-> 0, move_history |-> << >>,
     captured_stones |-> [c \in {BLACK, WHITE} |-> 0]]

\* The loop of lines 407-421 over the parsed moves, on the GameState gs and
\* the Board self it holds. A move is <<color, x, y>>, or <<color>> when the
\* record gives it no coordinates (x is None): that one is a pass (410-411),
\* any other is placed for its recorded colour (414-420), accepted or not.
RECURSIVE ReplayMoves(_, _, _)
ReplayMoves(moves, gs, self) ==
    IF moves = << >>
    THEN [gs |-> gs, self |-> self]
    ELSE LET color == Head(moves)[1]
             x == Head(moves)[2]
             y == Head(moves)[3]
         IN IF Len(Head(moves)) < 3
            THEN ReplayMoves(Tail(moves), GameState_pass_turn(gs).gs, self)
            ELSE LET r == ReplayCall(gs, self, x, y, color)
                 IN ReplayMoves(Tail(moves), r.gs, r.self)

\* load_game_from_sgf(file_path, board, game_state) for a file that parses to
\* `moves`, the path on which it returns True. board.clear() works on the
\* caller's Board (394); line 395 binds the local name game_state to a new
\* GameState, which the loop and lines 423-426 then work on, so no field of the
\* GameState the caller passed is assigned. The result holds the caller's two
\* objects after the call and the local GameState at the return.
load_game_from_sgf(moves, board_arg, game_state_arg) ==
    LET replayed == ReplayMoves(moves, GameState_init, Board_clear(board_arg))
        next_player ==
            IF moves # << >> /\ moves[Len(moves)][1] = "B" THEN WHITE ELSE BLACK
    IN [ret |-> TRUE,
        board |-> replayed.self,
        game_state |-> game_state_arg,
        local |-> [replayed.gs EXCEPT !.current_player = next_player]]

\* Records the replay may start with.  A lone White stone is walled in by
\* eight Black stones and then retakes the whole board; a White stone on
\* the edge is taken by three Black moves in a row; the ko position; a
\* record followed by a second load, which clears the Board.
EvictionRecord ==
    << <<1, 0, "W">>, <<0, 2, "B">>, <<1, 2, "B">>, <<2, 1, "B">>, <<2, 0, "B">>,
       <<0, 1, "B">>, <<1, 1, "B">>, <<2, 2, "B">>, <<0, 0, "B">> >>
EdgeCaptureRecord ==
    << <<1, 0, "W">>, <<0, 0, "B">>, <<2, 0, "B">>, <<1, 1, "B">> >>
KoRecord ==
    << <<1, 1, "B">>, <<0, 1, "W">>, <<2, 0, "B">>, <<0, 2, "W">>,
       <<0, 0, "B">>, <<1, 0, "W">> >>
ReloadRecord == EdgeCaptureRecord \o << ClearKey >>
Records == {<< >>, EvictionRecord, KoRecord, ReloadRecord}

ReplayInit == Start(Records)

\* One placement of the record is replayed; accepted or not, it is one of
\* the record's moves.
ReplayStone(x, y, color) ==
    \E r \in {ReplayCall(TheGame, TheBoard, x, y, color)} :
       /\ Scripted(<<x, y, color>>)
       /\ Budget(TRUE)
       /\ board' = r.self.board
       /\ last_board_state' = r.self.last_board_state
       /\ previous_board_states' = r.self.previous_board_states
       /\ ko_position' = r.self.ko_position
       /\ current_player' = r.gs.current_player
       /\ pass_count' = r.gs.pass_count
       /\ move_history' = r.gs.move_history
       /\ captured_stones' = r.gs.captured_stones
       /\ placements' = IF r.ret THEN Append(placements, r.self.board) ELSE placements
       /\ last' = [op |-> "place_stone", ret |-> r.ret, line |-> r.line]
       /\ free' = NextFree(TRUE)
       /\ script' = NextScript
       /\ UNCHANGED <<evaluatorVars, wiped>>

\* A caller asks the Board for get_legal_moves(color) between the moves of
\* the opening record.
GetLegalMoves(color) ==
    /\ free = 0
    /\ \E r \in {Board_get_legal_moves(TheBoard, color)} :
       /\ board' = r.self.board
       /\ last_board_state' = r.self.last_board_state
       /\ previous_board_states' = r.self.previous_board_states
       /\ ko_position' = r.self.ko_position
       /\ last' = [op |-> "get_legal_moves", ret |-> FALSE, line |-> 209]
       /\ UNCHANGED <<gameVars, evaluatorVars, script, free, placements, wiped>>

ReplayNext ==
    \/ \E x \in Coord, y \in Coord, color \in SgfColours : ReplayStone(x, y, color)
    \/ PassTurn
    \/ \E color \in {BLACK, WHITE} : GetLegalMoves(color)
    \/ Clear

ReplaySpec == ReplayInit /\ [][ReplayNext]_vars

\* ------------------------------------------------- vocabulary of the claims
\* Intersections as <<x, y>>, and the rules of Go stated over sets of them.
Cells == Idx \X Idx
At(b, p) == b[p[2]][p[1]]
Touching(p, q) ==
    \/ (p[1] = q[1] /\ (p[2] = q[2] + 1 \/ q[2] = p[2] + 1))
    \/ (p[2] = q[2] /\ (p[1] = q[1] + 1 \/ q[1] = p[1] + 1))
Around(p) ==
    {q \in {<<p[1] + 1, p[2]>>, <<p[1] - 1, p[2]>>, <<p[1], p[2] + 1>>, <<p[1], p[2] - 1>>} :
        InBounds(q[1], q[2])}

\* The cells of colour c connected to the set S through cells of colour c.
RECURSIVE Flood(_, _, _)
Flood(b, c, S) ==
    LET more == {q \in UNION {Around(p) : p \in S} : At(b, q) = c /\ q \notin S}
    IN IF more # {} THEN Flood(b, c, S \cup more) ELSE S

\* The group of the stone at p, and whether a set of cells has a liberty.
GroupSet(b, p) == Flood(b, At(b, p), {p})
HasLiberty(b, G) == \E p \in G : \E q \in Around(p) : At(b, q) = EMPTY

\* The opponent stones that a stone of colour c put on the empty cell (x, y)
\* leaves without liberties: the stones of every opponent group that touches
\* (x, y) and has no liberty once the stone is there.
DeadCells(b, x, y, c) ==
    UNION {G \in {GroupSet(b, n) : n \in {q \in Around(<<x, y>>) : At(b, q) = Opponent(c)}} :
              ~HasLiberty(SetCell(b, x, y, c), G)}

\* The grid b with colour c on (x, y) and the cells of `dead` emptied.
GridWith(b, x, y, c, dead) ==
    [yy \in Idx |-> [xx \in Idx |->
        IF <<xx, yy>> \in dead THEN EMPTY
        ELSE IF <<xx, yy>> = <<x, y>> THEN c
        ELSE b[yy][xx]]]

\* The grid after colour c played (x, y) and the dead stones were taken off.
ResultGrid(b, x, y, c) == GridWith(b, x, y, c, DeadCells(b, x, y, c))

\* Colour c playing the empty cell (x, y) would capture nothing and leave its
\* own group without liberties.
IsSuicide(b, x, y, c) ==
    /\ DeadCells(b, x, y, c) = {}
    /\ ~HasLiberty(SetCell(b, x, y, c), GroupSet(SetCell(b, x, y, c), <<x, y>>))

IsPass(e) == Len(e) = 2
IsPlacement(e) == Len(e) = 3
NumMoves == Len(move_history)
NumPlaced == Len(placements)

\* The grids after the last 8 accepted placements.
Last8 == {placements[i] : i \in {j \in 1 .. NumPlaced : j > NumPlaced - 8}}

\* The cells taken off the board by the last accepted placement.
LastTaken ==
    IF NumPlaced >= 2
    THEN {p \in Cells : At(placements[NumPlaced - 1], p) # EMPTY /\ At(board, p) = EMPTY}
    ELSE {}

\* What game_state.place_stone(x, y) does when called in the current state.
Call(x, y) == GameState_place_stone(TheGame, TheBoard, x, y)

\* What board.place_stone(x, y, c) does when called in the current state.
BoardCall(x, y, c) == Board_place_stone(TheBoard, x, y, c)
Colours == {BLACK, WHITE}

\* -------------------------------------------------------------------- C1
\* r is the outcome of place_stone(x, y): if accepted, the grid is the old one
\* with the stone added and exactly the dead opponent stones removed, and only
\* the mover's tally grew, by the number of dead stones.
CaptureCorrect(r, x, y) ==
    r.ret =>
        /\ r.self.board = ResultGrid(board, x, y, current_player)
        /\ r.gs.captured_stones =
               [captured_stones EXCEPT ![current_player] =
                   @ + Cardinality(DeadCells(board, x, y, current_player))]

\* C1: every accepted GameState.place_stone removes exactly the stones of the
\* opponent groups that touch the placed stone and have no liberty left, and
\* raises the mover's captured_stones by the number of stones removed (each
\* counted once); the other tally is untouched.
C1_CaptureCorrect == \A x \in Coord, y \in Coord : CaptureCorrect(Call(x, y), x, y)

\* C1 witness: an accepted placement just took a group of three or more stones
\* that touched the placed stone on two sides, and the tally counts them.
C1_Witness ==
    /\ last.op = "place_stone" /\ last.ret
    /\ NumMoves >= 1 /\ IsPlacement(move_history[NumMoves])
    /\ Cardinality(LastTaken) >= 3
    /\ LET e == move_history[NumMoves]
       IN /\ Cardinality({p \in LastTaken : Touching(p, <<e[1], e[2]>>)}) >= 2
          /\ captured_stones[e[3]] = Cardinality(LastTaken)

\* -------------------------------------------------------------------- C2
\* r is the outcome of Board.place_stone: rejected, grid as before.
RejectedGridKept(r) == ~r.ret /\ r.self.board = board

\* C2: a placement on an empty cell that would capture nothing and leave the
\* placed stone's group without liberties returns False and leaves the grid
\* cell-for-cell as it was.
C2_SuicideRejected ==
    \A x \in Idx, y \in Idx, c \in Colours :
        (board[y][x] = EMPTY /\ IsSuicide(board, x, y, c))
        => RejectedGridKept(BoardCall(x, y, c))

\* C2 witness: place_stone has just returned from its suicide branch.
C2_Witness ==
    /\ last.op = "place_stone" /\ ~last.ret /\ last.line = 88
    /\ \E x \in Idx, y \in Idx :
          board[y][x] = EMPTY /\ IsSuicide(board, x, y, current_player)

\* -------------------------------------------------------------------- C3
\* r is the outcome of a Board.place_stone that would produce the grid g.
NoRepetition(r, g) ==
    /\ g \in Last8 => (~r.ret /\ r.self.board = board)
    /\ r.ret => r.self.board \notin Last8

\* C3: a placement whose resulting grid equals the grid after one of the last
\* 8 accepted placements is rejected and leaves the grid unchanged; and the
\* grid after an accepted placement differs from each of those grids.
C3_NoRepetition ==
    \A x \in Idx, y \in Idx, c \in Colours :
        board[y][x] = EMPTY
        => NoRepetition(BoardCall(x, y, c), ResultGrid(board, x, y, c))

\* C3 witness: place_stone has just returned from its repetition branch, and
\* some empty cell would indeed recreate a grid of the last 8 placements.
C3_Witness ==
    /\ last.op = "place_stone" /\ ~last.ret /\ last.line = 114
    /\ \E x \in Idx, y \in Idx :
          /\ board[y][x] = EMPTY
          /\ ResultGrid(board, x, y, current_player) \in Last8

\* -------------------------------------------------------------------- C4
\* Colour c played P and took exactly the single stone at K.
KoCapture(before, after, K, P, c) ==
    /\ At(before, K) = Opponent(c) /\ At(after, K) = EMPTY
    /\ At(before, P) = EMPTY /\ At(after, P) = c
    /\ {p \in Cells : At(before, p) # At(after, p)} = {K, P}

\* Colour c playing K on b would take exactly the single stone at P.
Recapture(b, K, P, c) ==
    /\ At(b, K) = EMPTY
    /\ DeadCells(b, K[1], K[2], c) = {P}

\* The last accepted move took the ko at K by playing P.
KoJustTaken(K, P) ==
    /\ NumMoves >= 1 /\ NumPlaced >= 2
    /\ IsPlacement(move_history[NumMoves])
    /\ <<move_history[NumMoves][1], move_history[NumMoves][2]>> = P
    /\ move_history[NumMoves][3] = Opponent(current_player)
    /\ KoCapture(placements[NumPlaced - 1], board, K, P, Opponent(current_player))
    /\ Recapture(board, K, P, current_player)

\* The ko at K was taken by playing P, and since then each side has made one
\* accepted placement elsewhere.
KoTakenThenElsewhere(K, P) ==
    /\ NumMoves >= 3 /\ NumPlaced >= 4
    /\ \A i \in 0 .. 2 : IsPlacement(move_history[NumMoves - i])
    /\ <<move_history[NumMoves - 2][1], move_history[NumMoves - 2][2]>> = P
    /\ move_history[NumMoves - 2][3] = Opponent(current_player)
    /\ move_history[NumMoves - 1][3] = current_player
    /\ move_history[NumMoves][3] = Opponent(current_player)
    /\ KoCapture(placements[NumPlaced - 3], placements[NumPlaced - 2], K, P,
                 Opponent(current_player))
    /\ Recapture(board, K, P, current_player)

\* C4: in the single-stone ko shape the immediate recapture is rejected, and
\* the same recapture is accepted once each side has made an accepted
\* placement elsewhere.
C4_SimpleKo ==
    \A K \in Cells, P \in Cells :
        /\ KoJustTaken(K, P) => ~Call(K[1], K[2]).ret
        /\ KoTakenThenElsewhere(K, P) => Call(K[1], K[2]).ret

\* C4 witness: a ko was taken, each side played elsewhere, and the recapture
\* at the ko point has just been accepted.
C4_Witness ==
    /\ last.op = "place_stone" /\ last.ret
    /\ NumMoves >= 4 /\ NumPlaced >= 5
    /\ \A i \in 0 .. 3 : IsPlacement(move_history[NumMoves - i])
    /\ \E K \in Cells, P \in Cells :
          /\ KoCapture(placements[NumPlaced - 4], placements[NumPlaced - 3], K, P,
                       current_player)
          /\ KoCapture(placements[NumPlaced - 1], board, P, K, Opponent(current_player))
          /\ <<move_history[NumMoves][1], move_history[NumMoves][2]>> = K

\* -------------------------------------------------------------------- C5
\* C5: is_game_over() holds exactly when the two most recent entries of the
\* move log are pass markers, and pass_count is 0 right after a placement.
C5_GameOverIffTwoPasses ==
    /\ is_game_over <=>
           (/\ NumMoves >= 2
            /\ IsPass(move_history[NumMoves])
            /\ IsPass(move_history[NumMoves - 1]))
    /\ (NumMoves >= 1 /\ IsPlacement(move_history[NumMoves])) => pass_count = 0

\* C5 witness: the game is over after a log that also holds placements.
C5_Witness ==
    /\ is_game_over
    /\ \E i \in 1 .. NumMoves : IsPlacement(move_history[i])

\* -------------------------------------------------------------------- C6
\* C6 (as claimed): once is_game_over() is true it stays true after every
\* later place_stone or pass_turn call.
C6_OverStaysOver == [][is_game_over => is_game_over']_vars

\* -------------------------------------------------------------------- C7
\* C7: when GameState.place_stone returns False, current_player,
\* move_history, pass_count and captured_stones are what they were.
C7_RejectionKeepsGame ==
    \A x \in Coord, y \in Coord : ~Call(x, y).ret => Call(x, y).gs = TheGame

\* C7 witness: a placement was rejected while the pass streak was running,
\* with moves in the log and captures in the tally.
C7_Witness ==
    /\ last.op = "place_stone" /\ ~last.ret
    /\ pass_count = 1
    /\ NumMoves >= 2
    /\ \E c \in {BLACK, WHITE} : captured_stones[c] > 0

\* -------------------------------------------------------------------- C8
\* r is the outcome of a placement: if rejected, the Board is as before.
RejectedBoardKept(r) ==
    ~r.ret =>
        /\ r.self.board = board
        /\ r.self.previous_board_states = previous_board_states
        /\ r.self.ko_position = ko_position

\* C8: when Board.place_stone returns False the grid, the position history
\* and the forbidden point are what they were; of the calls other than
\* clear(), the three change only in an accepted placement.
C8_RejectionKeepsBoard ==
    /\ [](\A x \in Coord, y \in Coord, c \in Colours :
              RejectedBoardKept(BoardCall(x, y, c)))
    /\ [][(/\ last'.op # "clear"
            /\ \/ board' # board
               \/ previous_board_states' # previous_board_states
               \/ ko_position' # ko_position)
          => (last'.op = "place_stone" /\ last'.ret)]_vars

\* C8 witness: place_stone came back from a branch that had already put the
\* stone on the grid, with a history to keep.
C8_Witness ==
    /\ last.op = "place_stone" /\ ~last.ret /\ last.line \in {88, 114}
    /\ Len(previous_board_states) >= 2
    /\ last_board_state = board

\* -------------------------------------------------------------------- C9
\* The colour logged in an entry of move_history.
LoggedColour(e) == e[Len(e)]

\* r is the outcome of place_stone(x, y): if accepted, the log grew by
\* (x, y, mover), the pass streak is 0 and the turn went to the other colour.
PlacementLogged(r, x, y) ==
    r.ret =>
        /\ r.gs.move_history = Append(move_history, <<x, y, current_player>>)
        /\ r.gs.pass_count = 0
        /\ r.gs.current_player = Opponent(current_player)

\* C9: an accepted place_stone(x, y) appends exactly (x, y, mover), sets
\* pass_count to 0 and hands the turn to the other colour; Black moves first
\* and the colours of the log entries alternate.
C9_LogAndAlternate ==
    /\ \A i \in 1 .. NumMoves :
           LoggedColour(move_history[i]) = IF i % 2 = 1 THEN BLACK ELSE WHITE
    /\ current_player = IF NumMoves % 2 = 0 THEN BLACK ELSE WHITE
    /\ \A x \in Coord, y \in Coord : PlacementLogged(Call(x, y), x, y)

\* C9 witness: a placement was accepted right after a pass, in a log of at
\* least three entries.
C9_Witness ==
    /\ last.op = "place_stone" /\ last.ret
    /\ NumMoves >= 3
    /\ IsPass(move_history[NumMoves - 1])
    /\ pass_count = 0

\* ------------------------------------------------------------------- C10
\* r is the outcome of pass_turn().
PassCorrect(r) ==
    /\ r.gs.pass_count = pass_count + 1
    /\ r.gs.move_history = Append(move_history, <<"pass", current_player>>)
    /\ r.gs.current_player = Opponent(current_player)
    /\ r.gs.captured_stones = captured_stones
    /\ r.ret = (pass_count + 1 >= 2)

\* C10: pass_turn adds 1 to pass_count, appends one pass marker with the
\* passing colour, switches the player and returns True exactly when the new
\* pass_count is at least 2.
C10_PassTurn == PassCorrect(GameState_pass_turn(TheGame))

\* C10 witness: a third pass in a row has just returned True.
C10_Witness ==
    /\ last.op = "pass_turn" /\ last.ret
    /\ pass_count = 3

\* ------------------------------------------------------------------- C11
\* The rejection kinds, by the return statement of Board.place_stone taken.
RejectionKind(line) ==
    IF line = 51 THEN "OutOfBounds"
    ELSE IF line = 54 THEN "CellOccupied"
    ELSE IF line = 88 THEN "Suicide"
    ELSE "Ko"

\* The <<kind, value returned to the caller>> pairs of the placements that
\* Board.place_stone would reject in the current state.
RejectionsReported ==
    {<<RejectionKind(r.line), r.ret>> :
        r \in {q \in {BoardCall(x, y, c) : x \in Coord, y \in Coord, c \in Colours} :
                  ~q.ret}}

\* C11 (as claimed): rejections of different kinds are reported to the caller
\* with results that differ.
C11_KindsToldApart ==
    \A p \in RejectionsReported, q \in RejectionsReported :
        p[1] # q[1] => p[2] # q[2]

\* ------------------------------------------------------------------- C12
\* r is the outcome of a Board.place_stone: rejected, Board as before.
RefusedUntouched(r) == ~r.ret /\ r.self = TheBoard

\* C12: off the board (negative coordinates included) get_stone returns None
\* and place_stone returns False; on an occupied cell place_stone returns
\* False; the Board is unchanged in each case, and on the board get_stone
\* returns the cell's value.
C12_OffBoardAndOccupied ==
    \A x \in Coord, y \in Coord :
        /\ ~InBounds(x, y) =>
               /\ get_stone(TheBoard, x, y) = None
               /\ \A c \in Colours : RefusedUntouched(BoardCall(x, y, c))
        /\ InBounds(x, y) =>
               /\ get_stone(TheBoard, x, y) = <<board[y][x]>>
               /\ board[y][x] # EMPTY =>
                      \A c \in Colours : RefusedUntouched(BoardCall(x, y, c))

\* C12 witness: place_stone has just refused a coordinate off the board while
\* stones of both colours stand on the last row or column, which a wrapped
\* index would reach.
C12_Witness ==
    /\ last.op = "place_stone" /\ ~last.ret /\ last.line = 51
    /\ \E i \in Idx : board[Size - 1][i] # EMPTY \/ board[i][Size - 1] # EMPTY
    /\ \E p \in Cells : At(board, p) = BLACK
    /\ \E p \in Cells : At(board, p) = WHITE

\* ------------------------------------------------------------------- C13
\* Position of the cell (x, y) in row-major order.
RowMajor(p) == p[2] * Size + p[1]

\* The list L holds exactly the cells of S, once each, in row-major order.
ListsInRowMajor(L, S) ==
    /\ Range(L) = S
    /\ \A i \in 1 .. Len(L), j \in 1 .. Len(L) :
           i < j => RowMajor(L[i]) < RowMajor(L[j])

\* C13: get_legal_moves(color) lists exactly the (x, y) for which
\* place_stone(x, y, color) on the current Board would return True, once each,
\* in row-major order.
C13_LegalMoves ==
    \A c \in Colours :
        LET legal_moves == get_legal_moves(TheBoard, c)
        IN ListsInRowMajor(legal_moves,
                           {p \in Coord \X Coord : BoardCall(p[1], p[2], c).ret})

\* C13 witness: some empty cell is left out of a list of at least two moves.
C13_Witness ==
    \E c \in Colours :
        /\ Len(get_legal_moves(TheBoard, c)) >= 2
        /\ \E p \in Cells :
              At(board, p) = EMPTY /\ p \notin Range(get_legal_moves(TheBoard, c))

\* ------------------------------------------------------------------- C14
\* The Boards a and b answer every single placement on the board alike.
SameAnswers(a, b) ==
    \A x \in Idx, y \in Idx, c \in Colours :
        Board_place_stone(a, x, y, c) = Board_place_stone(b, x, y, c)

\* C14: clear() leaves an all-EMPTY grid, an empty position history and no
\* forbidden point; the cleared Board is in the state of a new Board, answers
\* every placement as a new Board does, and accepts the placements that were
\* rejected as repetitions before the clear.
C14_ClearIsFresh ==
    /\ \A p \in Cells : At(Board_clear(TheBoard).board, p) = EMPTY
    /\ Board_clear(TheBoard).previous_board_states = << >>
    /\ Board_clear(TheBoard).ko_position = None
    /\ Board_clear(TheBoard) = Board_init
    /\ SameAnswers(Board_clear(TheBoard), Board_init)
    /\ \A x \in Idx, y \in Idx, c \in Colours :
           LET r == BoardCall(x, y, c)
           IN (~r.ret /\ r.line = 114)
              => Board_place_stone(Board_clear(TheBoard), x, y, c).ret

\* C14 witness: after a clear() that threw a position history away, a
\* placement recreating one of the thrown-away grids has just been accepted.
C14_Witness ==
    /\ last.op = "place_stone" /\ last.ret
    /\ wiped # {}
    /\ tobytes(board) \in wiped

\* ------------------------------------------------------------------- C20
\* The sizes a Board is constructed with.
SizesTried == (-1) .. Size

\* C20 (as claimed): constructing a Board fails for every size that is 0 or
\* negative, and succeeds for every positive size (with the grid shape of
\* the Board in use when the size is the same).
C20_NonPositiveSizeFails ==
    \A size \in SizesTried :
        /\ size <= 0 => Board_construct(size).raises
        /\ size > 0 =>
               /\ ~Board_construct(size).raises
               /\ size = Cardinality(DOMAIN board)
                      => DOMAIN Board_construct(size).self.board = DOMAIN board

\* ------------------------------------------------------------------- C15
\* The cells next to p.
Beside(p) ==
    {<<p[1] + 1, p[2]>>, <<p[1] - 1, p[2]>>, <<p[1], p[2] + 1>>, <<p[1], p[2] - 1>>}
        \cap Cells

\* The empty cells connected to the set S of empty cells.
RECURSIVE Spread(_, _)
Spread(b, S) ==
    LET more == {q \in UNION {Beside(p) : p \in S} : At(b, q) = EMPTY} \ S
    IN IF more = {} THEN S ELSE Spread(b, S \cup more)

\* The maximal connected sets of empty cells, and the colours of the stones
\* that touch a set of cells.
EmptyRegions(b) == {Spread(b, {p}) : p \in {q \in Cells : At(b, q) = EMPTY}}
BorderColours(b, R) == {At(b, q) : q \in UNION {Beside(p) : p \in R}} \ {EMPTY}

\* Number of stones of colour c, and of empty cells whose region touches
\* stones of colour c only.
StonesOf(b, c) == Cardinality({p \in Cells : At(b, p) = c})
TerritoryOf(b, c) ==
    Cardinality(UNION {R \in EmptyRegions(b) : BorderColours(b, R) = {c}})

\* Only colour c stands on b, with at least one stone and one empty cell.
OnlyColour(b, c) ==
    /\ \E p \in Cells : At(b, p) = c
    /\ \E p \in Cells : At(b, p) = EMPTY
    /\ \A p \in Cells : At(b, p) \in {c, EMPTY}

\* C15: calculate_score gives Black stones + Black territory to Black and
\* White stones + White territory + 6.5 to White (in half points here); on a
\* board with stones of one colour only, that colour gets every cell of the
\* board and the other colour gets nothing but White's 6.5.
C15_Score ==
    /\ GameState_calculate_score(board)[BLACK] =
           2 * (StonesOf(board, BLACK) + TerritoryOf(board, BLACK))
    /\ GameState_calculate_score(board)[WHITE] =
           2 * (StonesOf(board, WHITE) + TerritoryOf(board, WHITE)) + 13
    /\ OnlyColour(board, BLACK) =>
           /\ GameState_calculate_score(board)[BLACK] = 2 * Size * Size
           /\ GameState_calculate_score(board)[WHITE] = 13
    /\ OnlyColour(board, WHITE) =>
           /\ GameState_calculate_score(board)[WHITE] = 2 * Size * Size + 13
           /\ GameState_calculate_score(board)[BLACK] = 0

\* C15 witness: the game ended with a single Black stone on the board, and
\* Black's score is the whole board.
C15_Witness ==
    /\ is_game_over
    /\ OnlyColour(board, BLACK)
    /\ StonesOf(board, BLACK) = 1
    /\ GameState_calculate_score(board)[BLACK] = 2 * Size * Size

\* C16: the territory counts that GameState.calculate_score adds to the stone
\* counts are the counts TerritoryEvaluator.get_territory_ownership reports
\* for the same board, for Black and for White.
C16_SameTerritoryCounts ==
    \A c \in Colours :
        calculate_territory(board).count[c]
            = get_territory_ownership(TerritoryEvaluator_init, board).ret[c]

\* The empty cells of the grid b.
EmptyCells(b) == {p \in Cells : At(b, p) = EMPTY}

\* C17: get_territory_ownership counts every empty cell of the current board
\* in exactly one of Black, White and neutral: no count is negative and the
\* three counts add up to the number of empty cells, whether the evaluator
\* already holds a map (of this board or of an earlier one) or computes one
\* in the call.
C17_OwnershipPartitionsEmptyCells ==
    LET ret == get_territory_ownership(TheEvaluator, board).ret
    IN /\ \A c \in {BLACK, WHITE, EMPTY} : ret[c] \in 0 .. Cardinality(EmptyCells(board))
       /\ ret[BLACK] + ret[WHITE] + ret[EMPTY] = Cardinality(EmptyCells(board))

\* C17 witness: get_territory_ownership has just run on a board with stones of
\* both colours, and each of the three classes received at least one cell.
C17_Witness ==
    /\ last.op = "get_territory_ownership"
    /\ territory_map # None
    /\ \A c \in Colours : StonesOf(board, c) > 0
    /\ \A c \in {BLACK, WHITE, EMPTY} :
          get_territory_ownership(TheEvaluator, board).ret[c] > 0

\* C18: once the Board has changed, the next get_territory_ownership (and so
\* calculate_score) of the evaluator answers from a map computed for the
\* changed board, i.e. as an evaluator without a stored map would.
C18_MapFollowsBoard ==
    /\ get_territory_ownership(TheEvaluator, board).ret
          = get_territory_ownership(TerritoryEvaluator_init, board).ret
    /\ TerritoryEvaluator_calculate_score(TheEvaluator, board, captured_stones).ret
          = TerritoryEvaluator_calculate_score(TerritoryEvaluator_init, board,
                                               captured_stones).ret

\* C19: TerritoryEvaluator.calculate_score adds the supplied capture count of
\* each colour to its stones and territory (White also gets the komi), so k
\* more supplied captures give k more points (scores are in half points).
C19_CapturesCounted ==
    LET score(captured) ==
            TerritoryEvaluator_calculate_score(TerritoryEvaluator_init, board, captured).ret
        owned == get_territory_ownership(TerritoryEvaluator_init, board).ret
    IN /\ score(captured_stones)[BLACK]
             = 2 * (StonesOf(board, BLACK) + owned[BLACK] + captured_stones[BLACK])
       /\ score(captured_stones)[WHITE]
             = 2 * (StonesOf(board, WHITE) + owned[WHITE] + captured_stones[WHITE]) + Komi2
       /\ \A c \in Colours, k \in 1 .. 2 :
             score([captured_stones EXCEPT ![c] = @ + k])[c]
                 = score(captured_stones)[c] + 2 * k

\* ------------------------------------------------------------------- C22
\* The tallies `after` a call made by colour `mover`: none is lower than now,
\* and only the mover's may differ from now, and only if the call was an
\* accepted placement.
TalliesGrow(after, accepted, mover) ==
    \A c \in Colours :
        /\ after[c] >= captured_stones[c]
        /\ after[c] # captured_stones[c] => (accepted /\ c = mover)

\* C22: no place_stone or pass_turn call lowers captured_stones[BLACK] or
\* captured_stones[WHITE], and a tally changes only in an accepted placement
\* made by its colour.
C22_TalliesGrow ==
    /\ \A x \in Coord, y \in Coord :
          LET r == Call(x, y)
          IN TalliesGrow(r.gs.captured_stones, r.ret, current_player)
    /\ TalliesGrow(GameState_pass_turn(TheGame).gs.captured_stones, FALSE, current_player)

\* C22 witness: both colours have captured, and the last call was an accepted
\* placement that took a stone.
C22_Witness ==
    /\ last.op = "place_stone" /\ last.ret
    /\ captured_stones[BLACK] > 0 /\ captured_stones[WHITE] > 0
    /\ Cardinality(LastTaken) >= 1

\* ------------------------------------------------------------------- C23
\* C23 (as claimed): when the last accepted placement took exactly one stone
\* in a ko shape, ko_position is the coordinate of the stone taken.
C23_ForbiddenPointRecorded ==
    \A K \in Cells, P \in Cells : KoJustTaken(K, P) => ko_position = K

\* ------------------------------------------------------------------- C24
\* The history entries of the last accepted placements, at most 8 of them,
\* oldest first.
RetainedEntries ==
    LET n == IF NumPlaced > 8 THEN 8 ELSE NumPlaced
    IN [i \in 1 .. n |-> tobytes(placements[NumPlaced - n + i])]

\* The history `states` with the entry `cur` put behind it, the oldest entry
\* going when there were 8 already.
Pushed(states, cur) ==
    IF Len(states) = 8
    THEN [i \in 1 .. 8 |-> IF i < 8 THEN states[i + 1] ELSE cur]
    ELSE [i \in 1 .. (Len(states) + 1) |-> IF i <= Len(states) THEN states[i] ELSE cur]

\* C24: previous_board_states never holds more than 8 entries; its entries
\* are the grids after the most recent accepted placements, oldest first;
\* after an accepted placement the last entry is the current grid; an
\* accepted placement puts its grid at the end and evicts the oldest entry
\* when 8 were held, and a rejected placement leaves the list as it was.
C24_History ==
    /\ Len(previous_board_states) <= 8
    /\ previous_board_states = RetainedEntries
    /\ (last.op = "place_stone" /\ last.ret)
          => previous_board_states[Len(previous_board_states)] = tobytes(board)
    /\ \A x \in Coord, y \in Coord, c \in Colours :
          LET r == BoardCall(x, y, c)
          IN r.self.previous_board_states
                 = IF r.ret
                   THEN Pushed(previous_board_states, tobytes(r.self.board))
                   ELSE previous_board_states

\* C24 witness: more than 8 placements were accepted since the Board was
\* created, the last call was one of them, and the list holds 8 entries, the
\* grid of the first placement not being among them.
C24_Witness ==
    /\ last.op = "place_stone" /\ last.ret
    /\ NumPlaced > 8
    /\ Len(previous_board_states) = 8
    /\ tobytes(placements[1]) \notin Range(previous_board_states)

\* ------------------------------------------------------------------- C29
\* The placements of colour c in move_history.
PlacedBy(c) ==
    Cardinality({i \in 1 .. NumMoves :
                    IsPlacement(move_history[i]) /\ move_history[i][3] = c})

\* C29: as long as the Board has not been cleared of its stones, the number
\* of placements of each colour in move_history is the number of its stones
\* on the board plus the number of stones the other colour captured; and an
\* accepted placement leaves the mover one stone more than before.
C29_StonesAccounted ==
    /\ wiped = {} =>
          \A c \in Colours :
              PlacedBy(c) = StonesOf(board, c) + captured_stones[Opponent(c)]
    /\ \A x \in Coord, y \in Coord :
          LET r == Call(x, y)
          IN r.ret =>
                 StonesOf(r.self.board, current_player) = StonesOf(board, current_player) + 1

\* C29 witness: placements and a pass were made, a colour has captured three
\* stones or more, and stones of both colours stand on the board.
C29_Witness ==
    /\ wiped = {}
    /\ \E i \in 1 .. NumMoves : IsPass(move_history[i])
    /\ \E c \in Colours : captured_stones[c] >= 3
    /\ last.op = "place_stone" /\ last.ret

\* ------------------------------------------------------------------- C30
\* The last n entries of move_history are passes.
PassesJustMade(n) ==
    /\ NumMoves >= n
    /\ \A i \in 1 .. n : IsPass(move_history[NumMoves + 1 - i])

\* C30: pass_turn leaves the tallies as they are, and in a step that is a
\* pass_turn call the grid, the position history, the forbidden point and
\* the tallies keep their values; after passes, a placement that would
\* recreate a retained position is still rejected.
C30_PassKeepsBoard ==
    /\ [](/\ GameState_pass_turn(TheGame).gs.captured_stones = captured_stones
          /\ PassesJustMade(1) =>
                \A x \in Idx, y \in Idx :
                    (board[y][x] = EMPTY
                        /\ ResultGrid(board, x, y, current_player) \in Last8)
                    => ~Call(x, y).ret)
    /\ [][last'.op = "pass_turn" =>
             /\ board' = board
             /\ previous_board_states' = previous_board_states
             /\ ko_position' = ko_position
             /\ captured_stones' = captured_stones]_vars

\* C30 witness: after a ko capture and two passes, the recapture has just
\* been rejected as a repetition.
C30_Witness ==
    /\ last.op = "place_stone" /\ ~last.ret /\ last.line = 114
    /\ PassesJustMade(2)
    /\ \E x \in Idx, y \in Idx :
          /\ board[y][x] = EMPTY
          /\ DeadCells(board, x, y, current_player) # {}
          /\ ResultGrid(board, x, y, current_player) \in Last8

\* ------------------------------------------------------------------- C21
\* The colour constant a record's colour letter stands for.
ColourOf(color) == IF color = "B" THEN BLACK ELSE WHITE

\* r is the outcome of place_stone(x, y) called after current_player was set
\* to colour c: if accepted, the stone on (x, y) is c's, the log has grown by
\* (x, y, c), the stones taken are added to c's tally only, and it is the
\* turn of c's opponent.
PlacedFor(r, x, y, c) ==
    r.ret =>
        /\ r.self.board[y][x] = c
        /\ r.gs.move_history = Append(move_history, <<x, y, c>>)
        /\ r.gs.captured_stones =
               [captured_stones EXCEPT ![c] = @ + Cardinality(DeadCells(board, x, y, c))]
        /\ r.gs.current_player = Opponent(c)

\* C21: in every reachable state of a replay, whoever's turn it is and
\* whoever moved last, a placement made after current_player was set to c
\* is, when accepted, a move of c: stone, log entry and captures are c's,
\* and the turn passes to c's opponent.
C21_ControllerSetsColour ==
    \A x \in Coord, y \in Coord, color \in SgfColours :
        LET r == ReplayCall(TheGame, TheBoard, x, y, color)
        IN PlacedFor(r, x, y, ColourOf(color))

\* C21 witness: the same colour has just made two placements in a row, the
\* second one capturing, and the turn is its opponent's.
C21_Witness ==
    /\ last.op = "place_stone" /\ last.ret
    /\ NumMoves >= 2
    /\ IsPlacement(move_history[NumMoves]) /\ IsPlacement(move_history[NumMoves - 1])
    /\ move_history[NumMoves][3] = move_history[NumMoves - 1][3]
    /\ current_player = Opponent(move_history[NumMoves][3])
    /\ captured_stones[move_history[NumMoves][3]] > 0
    /\ LastTaken # {}

\* ------------------------------------------------------------------- C25
\* What board.get_legal_moves(c) does when called in the current state.
LegalCall(c) == Board_get_legal_moves(TheBoard, c)

\* C25: in every reachable state, for either colour, the Board after
\* get_legal_moves has the grid, the position history and the forbidden
\* point it had before, and the copy on which the candidates are tried
\* shares neither the grid nor the history list with the Board.
C25_LegalMovesKeepsBoard ==
    /\ \A c \in Colours :
          LET r == LegalCall(c)
          IN /\ r.self.board = board
             /\ r.self.previous_board_states = previous_board_states
             /\ r.self.ko_position = ko_position
    /\ SharedWithCopy(TheBoard) \cap {"board", "previous_board_states"} = {}

\* C25 witness: get_legal_moves has just returned on a Board with a history,
\* where one candidate captures and is accepted on the copy and another
\* candidate is refused on the copy.
C25_Witness ==
    /\ last.op = "get_legal_moves"
    /\ previous_board_states # << >>
    /\ \E c \in Colours, x \in Idx, y \in Idx :
          /\ <<x, y>> \in Range(LegalCall(c).ret)
          /\ DeadCells(board, x, y, c) # {}
    /\ \E c \in Colours, x \in Idx, y \in Idx :
          /\ board[y][x] = EMPTY
          /\ <<x, y>> \notin Range(LegalCall(c).ret)

\* ------------------------------------------------------------------- C26
\* The rule of acceptance: (x, y) is on the board, empty and not the
\* forbidden point, the group of the stone has a liberty once the dead
\* opponent stones are off, and the resulting grid is not the grid after
\* one of the last 8 accepted placements.
Acceptable(x, y, c) ==
    /\ InBounds(x, y)
    /\ board[y][x] = EMPTY
    /\ (ko_position = None \/ <<x, y>> # ko_position)
    /\ LET g == ResultGrid(board, x, y, c)
       IN HasLiberty(g, GroupSet(g, <<x, y>>)) /\ g \notin Last8

\* The grids after accepted placements that the history no longer holds.
Evicted == {placements[i] : i \in {j \in 1 .. NumPlaced : j <= NumPlaced - 8}}

\* C26: in every reachable state Board.place_stone(x, y, c) returns True
\* exactly when the rule of acceptance holds; hence a stone on a point with
\* no empty neighbour is accepted when it captures and does not repeat a
\* retained position, and a position that has left the history is accepted
\* again.
C26_AcceptedExactlyWhen ==
    /\ \A x \in Coord, y \in Coord, c \in Colours :
          BoardCall(x, y, c).ret <=> Acceptable(x, y, c)
    /\ \A x \in Idx, y \in Idx, c \in Colours :
          LET g == ResultGrid(board, x, y, c)
              r == BoardCall(x, y, c)
          IN (/\ board[y][x] = EMPTY
              /\ \A q \in Around(<<x, y>>) : At(board, q) # EMPTY
              /\ DeadCells(board, x, y, c) # {}
              /\ g \in Evicted \ Last8)
             => (r.ret /\ r.self.board = g)

\* C26 witness: the last placement was accepted on a point that had no empty
\* neighbour, it captured, and it recreated a grid that had left the
\* history.
C26_Witness ==
    /\ last.op = "place_stone" /\ last.ret
    /\ NumPlaced >= 10 /\ NumMoves >= 1
    /\ IsPlacement(move_history[NumMoves])
    /\ \A q \in Around(<<move_history[NumMoves][1], move_history[NumMoves][2]>>) :
          At(placements[NumPlaced - 1], q) # EMPTY
    /\ LastTaken # {}
    /\ \E i \in 1 .. (NumPlaced - 9) : placements[i] = board

AllAlive(b) ==
    \A p \in Cells : At(b, p) # EMPTY => HasLiberty(b, GroupSet(b, p))

\* C28: in every state reachable through placements of either colour in any
\* order every group on the grid has a liberty, and so has the group of
\* every stone that a further placement would be accepted for; hence the
\* grid is never full, which on a board of a single cell means that it
\* never holds a stone.
C28_EveryGroupHasLiberty ==
    /\ AllAlive(board)
    /\ \E p \in Cells : At(board, p) = EMPTY
    /\ \A x \in Idx, y \in Idx, c \in Colours :
          LET r == BoardCall(x, y, c)
          IN r.ret => HasLiberty(r.self.board, GroupSet(r.self.board, <<x, y>>))

\* C28 witness: an accepted capturing placement has left a single empty
\* cell, the only liberty of all the stones on the grid.
C28_Witness ==
    /\ last.op = "place_stone" /\ last.ret
    /\ LastTaken # {}
    /\ Cardinality(EmptyCells(board)) = 1
    /\ Cardinality({At(board, p) : p \in Cells}) = 2

\* ------------------------------------------------------------------- C31
\* t is the result of calculate_territory on grid b: a cell is marked for a
\* colour only if it is empty and the stones touching its empty region are
\* all of that colour, and each count is the number of cells so marked.
TerritoryMarked(t, b) ==
    /\ \A p \in Cells, c \in Colours :
          At(t.territory_map, p) = c =>
              (At(b, p) = EMPTY /\ BorderColours(b, Spread(b, {p})) = {c})
    /\ \A c \in Colours :
          t.count[c] = Cardinality({p \in Cells : At(t.territory_map, p) = c})

\* C31: on every reachable board calculate_territory counts an empty cell
\* for at most one colour and only in regions bordered by one colour, the
\* two territories together are at most the empty cells, the two scores
\* less komi (in half points) are at most the cells of the board, and on an
\* empty board the scores are 0 and 6.5.
C31_TerritoryBounded ==
    LET t == calculate_territory(board)
        score == GameState_calculate_score(board)
    IN /\ TerritoryMarked(t, board)
       /\ t.count[BLACK] + t.count[WHITE] <= Cardinality(EmptyCells(board))
       /\ score[BLACK] + score[WHITE] - Komi2 <= 2 * Size * Size
       /\ EmptyCells(board) = Cells => (score[BLACK] = 0 /\ score[WHITE] = Komi2)

\* C31 witness: stones of both colours stand on the board, one empty region
\* is bordered by one colour and counted for it, another is bordered by both
\* and counted for nobody.
C31_Witness ==
    /\ \E c \in Colours : calculate_territory(board).count[c] > 0
    /\ \E R \in EmptyRegions(board) : BorderColours(board, R) = Colours
    /\ calculate_territory(board).count[BLACK] + calculate_territory(board).count[WHITE]
           < Cardinality(EmptyCells(board))

\* ------------------------------------------------------------------- C32
\* The occupied cells of the current grid.
Occupied == {p \in Cells : At(board, p) # EMPTY}

\* C32: on every reachable grid find_group(x, y) is empty for an empty cell;
\* for an occupied cell it lists, once each, exactly the cells connected to
\* (x, y) through orthogonal neighbours of its colour, all on the board; and
\* the groups of two occupied cells are the same set when the cells are so
\* connected and disjoint otherwise.
C32_FindGroup ==
    /\ \A p \in Cells \ Occupied : find_group(board, p[1], p[2]) = << >>
    /\ \A p \in Occupied :
          LET group == find_group(board, p[1], p[2])
          IN /\ Range(group) = GroupSet(board, p)
             /\ Range(group) \subseteq Cells
             /\ Len(group) = Cardinality(Range(group))
             /\ \A q \in Occupied :
                   LET other == Range(find_group(board, q[1], q[2]))
                   IN IF q \in Range(group)
                      THEN other = Range(group)
                      ELSE other \cap Range(group) = {}

\* C32 witness: the grid holds a group of at least three stones that is not
\* a straight line, and a stone of the same colour outside that group.
C32_Witness ==
    \E p \in Occupied, q \in Occupied :
        /\ At(board, p) = At(board, q)
        /\ q \notin Range(find_group(board, p[1], p[2]))
        /\ Len(find_group(board, p[1], p[2])) >= 3
        /\ \E a \in Range(find_group(board, p[1], p[2])) :
              \E b \in Range(find_group(board, p[1], p[2])) :
                  a[1] # b[1] /\ a[2] # b[2]

\* ------------------------------------------------------------------- C33
\* The lists has_liberties is asked about: the group of every occupied
\* cell, every single cell, and the empty list.
GroupsAsked ==
    {find_group(board, p[1], p[2]) : p \in Cells} \cup {<<p>> : p \in Cells}

\* C33: on every reachable Board has_liberties(group) is True exactly when a
\* member of the group has an empty orthogonal neighbour on the board, the
\* Board after the call is the Board before it, and a second call returns
\* what the first returned.
C33_HasLiberties ==
    \A group \in GroupsAsked :
        LET first == Board_has_liberties(TheBoard, group)
            second == Board_has_liberties(first.self, group)
        IN /\ first.ret <=>
                  \E p \in Range(group) : \E q \in Cells :
                      Touching(p, q) /\ At(board, q) = EMPTY
           /\ first.self = TheBoard
           /\ second.ret = first.ret

\* C33 witness: the grid holds a group of several stones that has a liberty
\* although the first stone of its list has no empty neighbour.
C33_Witness ==
    /\ ~has_liberties(board, << >>)
    /\ \E p \in Occupied :
          LET group == find_group(board, p[1], p[2])
          IN /\ Len(group) >= 2
             /\ has_liberties(board, group)
             /\ ~has_liberties(board, <<group[1]>>)

\* ------------------------------------------------------------------- C34
\* The stones of colour c that touch the set R of cells.
BorderStones(b, R, c) == {q \in UNION {Beside(p) : p \in R} : At(b, q) = c}

\* The value v agrees with the comparison of nb Black and nw White stones.
FollowsRatio(v, nb, nw) ==
    /\ nb > nw => v > 0
    /\ nw > nb => v < 0
    /\ nb = nw => v = 0
    /\ -2 * Scale <= v /\ v <= 2 * Scale

\* C34: on every reachable board, each cell of an empty region that touches
\* stones of both colours gets, in step 2 of evaluate, a value that is
\* positive when more Black than White stones touch the region, negative
\* when more White than Black do, zero when they are as many, and within
\* [-2, 2].
C34_ContestedValueFollowsRatio ==
    \A R \in EmptyRegions(board) :
        BorderColours(board, R) = Colours =>
            \A p \in R :
                FollowsRatio(At(FillUpTo(board, Size * Size).territory_map, p),
                             Cardinality(BorderStones(board, R, BLACK)),
                             Cardinality(BorderStones(board, R, WHITE)))

\* ------------------------------------------------------------------- C35
\* The class of a normalized value v: Black above 0.5, White below -0.5,
\* neutral (EMPTY) otherwise.
ClassOfNormalized(v) ==
    IF 2 * v > Scale THEN BLACK
    ELSE IF 2 * v < -Scale THEN WHITE
    ELSE EMPTY

\* C35: on every reachable board, the three counts that a new evaluator's
\* get_territory_ownership returns are the numbers of empty cells whose
\* entry in the evaluator's influence map (the normalized map) is above
\* 0.5, below -0.5, and neither.
C35_OwnershipByNormalizedMap ==
    LET r == get_territory_ownership(TerritoryEvaluator_init, board)
    IN \A c \in {BLACK, WHITE, EMPTY} :
           r.ret[c] = Cardinality({p \in EmptyCells(board) :
                          ClassOfNormalized(At(r.ev.influence_map, p)) = c})
\* The map has the stone values of lines 43-47 on the occupied cells of b.
StonesKept(b, map) ==
    \A p \in Cells :
        At(b, p) # EMPTY => MapAt(map, p[1], p[2]) = (IF At(b, p) = BLACK THEN 10 * Scale ELSE -10 * Scale)

\* The stone values are on the map and stay on it through each of the next
\* `passes` smoothing passes.
RECURSIVE StonesKeptThrough(_, _, _, _)
StonesKeptThrough(b, map, potential_territory, passes) ==
    /\ StonesKept(b, map)
    /\ \/ passes = 0
       \/ StonesKeptThrough(b, PropagateOnce(b, map, potential_territory),
                            potential_territory, passes - 1)

\* A step in which evaluate runs: a territory map is stored where none was.
Evaluates == territory_map = None /\ territory_map' # None

\* C36: smoothing never changes the value of an occupied cell. In every step in
\* which evaluate runs, the cell of every Black stone holds exactly +10 and the
\* cell of every White stone exactly -10 in the territory map it stores, and
\* also after each number of passes from 0 to 8 in either smoothing mode (the
\* two modes run 8 and 3 passes); and the step leaves the Board as it was.
C36_StoneCellsFixed ==
    [][Evaluates =>
          /\ StonesKept(board', Flat(territory_map'))
          /\ \A potential_territory \in BOOLEAN :
                StonesKeptThrough(board, Flat(FillUpTo(board, Size * Size).territory_map),
                                  potential_territory, 8)
          /\ TerritoryEvaluator_evaluate(TheBoard, FALSE).self = TheBoard
          /\ boardVars' = boardVars]_vars

\* C36 witness: an evaluation has been stored for a grid with stones of both
\* colours, the smoothing has changed the value of an empty cell, and the
\* stored map holds +10 and -10 on the stones.
C36_Witness ==
    /\ territory_map # None
    /\ \E p \in Cells, q \in Cells : At(board, p) = BLACK /\ At(board, q) = WHITE
    /\ StonesKept(board, Flat(territory_map))
    /\ \E p \in EmptyCells(board) :
          At(territory_map, p) # At(FillUpTo(board, Size * Size).territory_map, p)

\* The divisor of line 159 for a territory map, in units of 1/Scale.
Divisor(territory) == Max(MaxAbs(Flat(territory)), Scale)

\* The entry n is the quotient of the entry t by the divisor d, rounded down to
\* a multiple of 1/Scale.
QuotientOf(n, t, d) == n * d <= t * Scale /\ t * Scale < (n + 1) * d

\* The influence map is the territory map divided by the divisor, with every
\* entry in [-1, 1], magnitude 1 on each stone of the grid b, and all zeros
\* with divisor 1 when b is empty.
NormalizedFor(b, maps) ==
    LET d == Divisor(maps.territory_map)
    IN /\ \A p \in Cells :
             LET n == At(maps.influence_map, p)
             IN /\ QuotientOf(n, At(maps.territory_map, p), d)
                /\ -Scale <= n /\ n <= Scale
                /\ At(b, p) # EMPTY => Abs(n) = Scale
       /\ EmptyCells(b) = Cells =>
             d = Scale /\ \A p \in Cells : At(maps.influence_map, p) = 0

\* C37: the influence map evaluate returns is the territory map divided by the
\* larger of its largest magnitude and 1; its entries lie in [-1, 1]; on the
\* empty board the divisor is 1 and every entry is 0; with a stone on the board
\* every cell with a stone has magnitude exactly 1. This holds of the maps
\* stored by every step in which evaluate runs, and of the maps the other
\* smoothing mode returns for the same board.
C37_InfluenceMapNormalized ==
    [][Evaluates =>
          /\ NormalizedFor(board', [territory_map |-> territory_map',
                                    influence_map |-> influence_map'])
          /\ NormalizedFor(board, evaluate(board, FALSE))]_vars

\* C37 witness: an evaluation has been stored for a grid with a stone, whose
\* largest territory magnitude is 10, and the stored influence map holds
\* magnitude 1 on the stone and a value strictly between 0 and 1 in magnitude
\* on an empty cell.
C37_Witness ==
    /\ influence_map # None
    /\ Divisor(territory_map) = 10 * Scale
    /\ \E p \in Cells : At(board, p) # EMPTY /\ Abs(At(influence_map, p)) = Scale
    /\ \E p \in EmptyCells(board) :
          0 < Abs(At(influence_map, p)) /\ Abs(At(influence_map, p)) < Scale

\* Parsed records a file may hold: no move; a single Black move; a capture in
\* the corner followed by a move on an occupied point; a record with a pass
\* that ends on a White move.
SgfRecords ==
    { << >>,
      << <<"B", 0, 0>> >>,
      << <<"W", 0, 0>>, <<"B", 1, 0>>, <<"B", 0, 1>>, <<"W", 1, 0>> >>,
      << <<"B", 1, 1>>, <<"W">>, <<"W", 0, 2>> >> }

\* The placements of the record that its replay on an empty Board accepts, in
\* order, as move_history entries (x, y, colour).
RECURSIVE AcceptedMoves(_, _)
AcceptedMoves(moves, self) ==
    IF moves = << >>
    THEN << >>
    ELSE LET color == IF Head(moves)[1] = "B" THEN BLACK ELSE WHITE
             x == Head(moves)[2]
             y == Head(moves)[3]
         IN IF Len(Head(moves)) < 3
            THEN AcceptedMoves(Tail(moves), self)
            ELSE LET r == Board_place_stone(self, x, y, color)
                 IN IF r.ret
                    THEN << <<x, y, color>> >> \o AcceptedMoves(Tail(moves), r.self)
                    ELSE AcceptedMoves(Tail(moves), r.self)

\* The entries of a move_history that are placements.
PlacementsOf(history) == SelectSeq(history, LAMBDA e : Len(e) = 3)

\* C38: after load_game_from_sgf returns True, the GameState the caller
\* passed reflects the record: the placements of its move_history are the
\* accepted placements of the record in order with their recorded colour, its
\* current_player is the opponent of the colour of the last recorded move,
\* and every stone on the Board was placed by an entry of its move_history.
\* The caller's objects are the program's Board and GameState, in the state
\* given by board, move_history and current_player.
C38_CallerGameStateReplayed ==
    \A moves \in SgfRecords :
        LET r == load_game_from_sgf(moves, TheBoard, TheGame)
        IN r.ret =>
             /\ PlacementsOf(r.game_state.move_history)
                   = AcceptedMoves(moves, Board_clear(TheBoard))
             /\ moves # << >> =>
                   r.game_state.current_player
                     = (IF moves[Len(moves)][1] = "B" THEN WHITE ELSE BLACK)
             /\ \A p \in Cells :
                   At(r.board.board, p) # EMPTY =>
                     \E i \in 1 .. Len(r.game_state.move_history) :
                        r.game_state.move_history[i] = <<p[1], p[2], At(r.board.board, p)>>

====
